---- MODULE Spec2Model ----
(***************************************************************************)
(* Leader / task-delegation core of the agents repository:                 *)
(*   python/teams/base_leader_agent.py      (BaseLeaderAgent, Task)        *)
(*   python/teams/bakery_team/bakery_leader.py                             *)
(*   python/teams/repository_team/repository_leader.py                     *)
(*   python/teams/shopify_store_team/shopify_store_leader.py               *)
(* A leader is single-threaded: public calls are made one at a time, and   *)
(* execute_goal is followed through its loops with a program counter.      *)
(***************************************************************************)
EXTENDS Integers, Sequences, FiniteSets, TLC

(***************************************************************************)
(* Bounds of the model.                                                    *)
(***************************************************************************)
MaxTasks == 3      \* tasks planned over the life of one leader
MaxWorkers == 2    \* distinct names registered on one leader
MaxCalls == 1      \* direct delegate_task / execute_task calls by the caller
MaxBalanceTasks == 5  \* tasks planned on a leader with a fixed team of two
MaxInitCalls == 2     \* calls of one worker's initialize

(***************************************************************************)
(* Python values.                                                          *)
(***************************************************************************)
NONE == "<None>"

\* TaskStatus
PENDING == "pending"
IN_PROGRESS == "in_progress"
COMPLETED == "completed"
FAILED == "failed"
DELEGATED == "delegated"

TaskStatus == {PENDING, IN_PROGRESS, COMPLETED, FAILED, DELEGATED}

\* TaskPriority
TaskPriority == [LOW |-> 1, MEDIUM |-> 2, HIGH |-> 3, CRITICAL |-> 4]

\* dict.get(key, default)
Get(d, k, default) == IF k \in DOMAIN d THEN d[k] ELSE default

\* the empty dict
EmptyDict == [k \in {} |-> NONE]

\* truth value of a list
TruthyList(l) == Len(l) > 0

\* str.lower(), one character
LowerChar(ch) ==
  CASE ch = "A" -> "a" [] ch = "B" -> "b" [] ch = "C" -> "c" [] ch = "D" -> "d"
    [] ch = "E" -> "e" [] ch = "F" -> "f" [] ch = "G" -> "g" [] ch = "H" -> "h"
    [] ch = "I" -> "i" [] ch = "J" -> "j" [] ch = "K" -> "k" [] ch = "L" -> "l"
    [] ch = "M" -> "m" [] ch = "N" -> "n" [] ch = "O" -> "o" [] ch = "P" -> "p"
    [] ch = "Q" -> "q" [] ch = "R" -> "r" [] ch = "S" -> "s" [] ch = "T" -> "t"
    [] ch = "U" -> "u" [] ch = "V" -> "v" [] ch = "W" -> "w" [] ch = "X" -> "x"
    [] ch = "Y" -> "y" [] ch = "Z" -> "z" [] OTHER -> ch

\* goal.lower(); a string is the sequence of its characters
Lower(s) == [i \in 1..Len(s) |-> LowerChar(s[i])]

\* Python's `sub in s` on strings
In(sub, s) ==
  \E i \in 1..(Len(s) - Len(sub) + 1) : SubSeq(s, i, i + Len(sub) - 1) = sub

(***************************************************************************)
(* Task.__init__ and the task ids the planners build.                      *)
(***************************************************************************)
\* f"task_{self.task_counter}"
TaskId(n) == <<"task_", n>>

Task(task_id, task_type, priority) ==
  [task_id |-> task_id, task_type |-> task_type, priority |-> priority,
   assigned_to |-> NONE, status |-> PENDING, result |-> NONE, error |-> NONE]

\* The planners' idiom `self.task_counter += 1; tasks.append(Task(...))`,
\* repeated n times from counter value c.  A plan step is the list of tasks
\* it appended and the counter it leaves behind.
Emit(c, n, task_type, priority) ==
  [tasks |-> [i \in 1..n |-> Task(TaskId(c + i), task_type, priority)],
   counter |-> c + n]

NoTasks(c) == [tasks |-> <<>>, counter |-> c]

\* tasks.extend(...) / consecutive appends: q was planned from p.counter
Extend(p, q) == [tasks |-> p.tasks \o q.tasks, counter |-> q.counter]

(***************************************************************************)
(* BakeryLeader: plan_tasks and its helpers.  A context is a dict (a       *)
(* function from keys to values); lists are sequences.                     *)
(***************************************************************************)
TruthyDict(d) == DOMAIN d # {}

Bakery_plan_production_planning(context, c) ==
  LET p1 == Emit(c, 1, "sales_forecasting", TaskPriority.HIGH)
      recipes_to_scale == Get(context, "recipes", <<>>)
      p2 == Emit(p1.counter, Len(recipes_to_scale), "recipe_scale", TaskPriority.MEDIUM)
      p3 == IF Get(context, "generate_report", TRUE)
              THEN Emit(p2.counter, 1, "production_report", TaskPriority.MEDIUM)
              ELSE NoTasks(p2.counter)
  IN  Extend(Extend(p1, p2), p3)

Bakery_plan_custom_order(context, c) ==
  LET order_details == Get(context, "order", EmptyDict)
      p1 == Emit(c, 1, "customer_support", TaskPriority.HIGH)
      p2 == IF TruthyDict(Get(order_details, "recipe", EmptyDict))
              THEN Emit(p1.counter, 1, "recipe_allergens", TaskPriority.HIGH)
              ELSE NoTasks(p1.counter)
      p3 == IF Get(order_details, "nutrition_info", FALSE)
              THEN Emit(p2.counter, 1, "recipe_nutrition", TaskPriority.MEDIUM)
              ELSE NoTasks(p2.counter)
  IN  Extend(Extend(p1, p2), p3)

Bakery_plan_quality_check(context, c) ==
  LET products == Get(context, "products", <<>>)
  IN  Emit(c, Len(products), "quality_control", TaskPriority.HIGH)

Bakery_plan_recipe_management(context, c) ==
  LET action == Get(context, "action", "scale")
      task_type_map == [scale |-> "recipe_scale", substitute |-> "recipe_substitute",
                        allergens |-> "recipe_allergens", nutrition |-> "recipe_nutrition",
                        optimize |-> "recipe_optimize"]
  IN  Emit(c, 1, Get(task_type_map, action, "recipe_scale"), TaskPriority.MEDIUM)

Bakery_plan_demand_forecast(context, c) ==
  Emit(c, 1, "sales_forecasting", TaskPriority.MEDIUM)

Bakery_plan_customer_service(context, c) ==
  LET inquiries == Get(context, "inquiries", <<context>>)
  IN  Emit(c, Len(inquiries), "customer_support", TaskPriority.MEDIUM)

Bakery_plan_daily_operations(context, c) ==
  LET p1 == IF Get(context, "plan_production", TRUE)
              THEN Bakery_plan_production_planning(
                     ("recipes" :> Get(context, "recipes", <<>>))
                       @@ ("generate_report" :> FALSE), c)
              ELSE NoTasks(c)
      p2 == IF TruthyList(Get(context, "products_to_check", <<>>))
              THEN Bakery_plan_quality_check(
                     ("products" :> context["products_to_check"]), p1.counter)
              ELSE NoTasks(p1.counter)
      p3 == IF TruthyList(Get(context, "inquiries", <<>>))
              THEN Bakery_plan_customer_service(
                     ("inquiries" :> context["inquiries"]), p2.counter)
              ELSE NoTasks(p2.counter)
  IN  Extend(Extend(p1, p2), p3)

Bakery_plan_general_goal(goal, context, c) ==
  Emit(c, 1, "general", TaskPriority.MEDIUM)

BakeryLeader_plan_tasks(goal, context, c) ==
  LET goal_lower == Lower(goal)
  IN  IF In(<<"p","r","o","d","u","c","t","i","o","n">>, goal_lower) \/ In(<<"p","l","a","n">>, goal_lower)
        THEN Bakery_plan_production_planning(context, c)
      ELSE IF In(<<"c","u","s","t","o","m">>, goal_lower) \/ In(<<"o","r","d","e","r">>, goal_lower)
        THEN Bakery_plan_custom_order(context, c)
      ELSE IF In(<<"q","u","a","l","i","t","y">>, goal_lower) \/ In(<<"i","n","s","p","e","c","t","i","o","n">>, goal_lower)
        THEN Bakery_plan_quality_check(context, c)
      ELSE IF In(<<"r","e","c","i","p","e">>, goal_lower)
        THEN Bakery_plan_recipe_management(context, c)
      ELSE IF In(<<"f","o","r","e","c","a","s","t">>, goal_lower) \/ In(<<"d","e","m","a","n","d">>, goal_lower)
        THEN Bakery_plan_demand_forecast(context, c)
      ELSE IF In(<<"c","u","s","t","o","m","e","r">>, goal_lower) \/ In(<<"i","n","q","u","i","r","y">>, goal_lower)
        THEN Bakery_plan_customer_service(context, c)
      ELSE IF In(<<"d","a","i","l","y">>, goal_lower)
        THEN Bakery_plan_daily_operations(context, c)
      ELSE Bakery_plan_general_goal(goal, context, c)

(***************************************************************************)
(* RepositoryLeader: plan_tasks and its helpers.                           *)
(***************************************************************************)
Repository_plan_pr_review(context, c) ==
  LET p1 == Emit(c, 1, "code_review", TaskPriority.HIGH)
      p2 == IF Get(context, "run_tests", FALSE)
              THEN Emit(p1.counter, 1, "testing", TaskPriority.HIGH)
              ELSE NoTasks(p1.counter)
      p3 == IF Get(context, "check_docs", TRUE)
              THEN Emit(p2.counter, 1, "documentation", TaskPriority.MEDIUM)
              ELSE NoTasks(p2.counter)
  IN  Extend(Extend(p1, p2), p3)

Repository_plan_pre_release(context, c) ==
  LET p1 == Emit(c, 1, "testing", TaskPriority.CRITICAL)
      p2 == Emit(p1.counter, 1, "security", TaskPriority.CRITICAL)
      p3 == Emit(p2.counter, 1, "documentation", TaskPriority.HIGH)
      p4 == IF Get(context, "review_changes", TRUE)
              THEN Emit(p3.counter, 1, "code_review", TaskPriority.HIGH)
              ELSE NoTasks(p3.counter)
  IN  Extend(Extend(Extend(p1, p2), p3), p4)

Repository_plan_documentation_update(context, c) ==
  Emit(c, 1, "documentation", TaskPriority.MEDIUM)

Repository_plan_security_audit(context, c) ==
  LET p1 == Emit(c, 1, "code_review", TaskPriority.CRITICAL)
      p2 == Emit(p1.counter, 1, "security", TaskPriority.CRITICAL)
  IN  Extend(p1, p2)

Repository_plan_onboarding(context, c) ==
  LET p1 == Emit(c, 1, "documentation", TaskPriority.MEDIUM)
      p2 == IF Get(context, "generate_faq", TRUE)
              THEN Emit(p1.counter, 1, "faq_generation", TaskPriority.LOW)
              ELSE NoTasks(p1.counter)
  IN  Extend(p1, p2)

Repository_plan_daily_maintenance(context, c) ==
  LET p1 == Emit(c, 1, "testing", TaskPriority.MEDIUM)
      p2 == IF Get(context, "security_check", TRUE)
              THEN Emit(p1.counter, 1, "security", TaskPriority.MEDIUM)
              ELSE NoTasks(p1.counter)
  IN  Extend(p1, p2)

Repository_plan_general_goal(goal, context, c) ==
  Emit(c, 1, "general", TaskPriority.MEDIUM)

RepositoryLeader_plan_tasks(goal, context, c) ==
  LET goal_lower == Lower(goal)
  IN  IF In(<<"r","e","v","i","e","w">>, goal_lower) /\ In(<<"p","r">>, goal_lower)
        THEN Repository_plan_pr_review(context, c)
      ELSE IF In(<<"r","e","l","e","a","s","e">>, goal_lower) \/ In(<<"d","e","p","l","o","y">>, goal_lower)
        THEN Repository_plan_pre_release(context, c)
      ELSE IF In(<<"d","o","c">>, goal_lower) \/ In(<<"d","o","c","u","m","e","n","t","a","t","i","o","n">>, goal_lower)
        THEN Repository_plan_documentation_update(context, c)
      ELSE IF In(<<"s","e","c","u","r","i","t","y">>, goal_lower) \/ In(<<"a","u","d","i","t">>, goal_lower)
        THEN Repository_plan_security_audit(context, c)
      ELSE IF In(<<"o","n","b","o","a","r","d">>, goal_lower) \/ In(<<"c","o","n","t","r","i","b","u","t","o","r">>, goal_lower)
        THEN Repository_plan_onboarding(context, c)
      ELSE IF In(<<"d","a","i","l","y">>, goal_lower) \/ In(<<"m","a","i","n","t","e","n","a","n","c","e">>, goal_lower)
        THEN Repository_plan_daily_maintenance(context, c)
      ELSE Repository_plan_general_goal(goal, context, c)

(***************************************************************************)
(* ShopifyStoreLeader: plan_tasks and its helpers.                         *)
(***************************************************************************)
Shopify_plan_order_processing(context, c) ==
  Emit(c, 1, "order_processing", TaskPriority.HIGH)

Shopify_plan_customer_support(context, c) ==
  LET inquiries == Get(context, "inquiries", <<>>)
  IN  Emit(c, Len(inquiries), "customer_support", TaskPriority.MEDIUM)

Shopify_plan_marketing_campaign(context, c) ==
  LET platforms == Get(context, "platforms", <<"instagram", "facebook", "twitter">>)
      p1 == Emit(c, Len(platforms), "social_media", TaskPriority.MEDIUM)
      p2 == IF Get(context, "include_email", TRUE)
              THEN Emit(p1.counter, 1, "email_marketing", TaskPriority.MEDIUM)
              ELSE NoTasks(p1.counter)
  IN  Extend(p1, p2)

Shopify_plan_analytics(context, c) ==
  Emit(c, 1, "sales_forecasting", TaskPriority.MEDIUM)

Shopify_plan_customer_segmentation(context, c) ==
  Emit(c, 1, "customer_segmentation", TaskPriority.MEDIUM)

\* (mutant) the analytics helper numbers its task from the counter the
\* daily plan started with
Shopify_plan_daily_operations_stale(context, c) ==
  LET p1 == Shopify_plan_order_processing(context, c)
      p2 == IF TruthyList(Get(context, "inquiries", <<>>))
              THEN Shopify_plan_customer_support(context, p1.counter)
              ELSE NoTasks(p1.counter)
      p3 == Shopify_plan_analytics(context, c)
  IN  Extend(Extend(p1, p2), p3)

Shopify_plan_daily_operations(context, c) ==
  LET p1 == Shopify_plan_order_processing(context, c)
      p2 == IF TruthyList(Get(context, "inquiries", <<>>))
              THEN Shopify_plan_customer_support(context, p1.counter)
              ELSE NoTasks(p1.counter)
      p3 == Shopify_plan_analytics(context, p2.counter)
  IN  Extend(Extend(p1, p2), p3)

Shopify_plan_weekly_report(context, c) ==
  LET p1 == Shopify_plan_analytics(context, c)
      p2 == Shopify_plan_customer_segmentation(context, p1.counter)
      p3 == IF Get(context, "plan_social_media", TRUE)
              THEN Emit(p2.counter, 1, "social_media", TaskPriority.LOW)
              ELSE NoTasks(p2.counter)
  IN  Extend(Extend(p1, p2), p3)

Shopify_plan_general_goal(goal, context, c) ==
  Emit(c, 1, "general", TaskPriority.MEDIUM)

\* Python parses `a or b and c` as `a or (b and c)`
ShopifyStoreLeader_plan_tasks(goal, context, c) ==
  LET goal_lower == Lower(goal)
  IN  IF In(<<"o","r","d","e","r">>, goal_lower) /\ In(<<"p","r","o","c","e","s","s">>, goal_lower)
        THEN Shopify_plan_order_processing(context, c)
      ELSE IF In(<<"c","u","s","t","o","m","e","r">>, goal_lower) /\ In(<<"s","u","p","p","o","r","t">>, goal_lower)
        THEN Shopify_plan_customer_support(context, c)
      ELSE IF In(<<"m","a","r","k","e","t","i","n","g">>, goal_lower) \/ In(<<"c","a","m","p","a","i","g","n">>, goal_lower)
        THEN Shopify_plan_marketing_campaign(context, c)
      ELSE IF In(<<"a","n","a","l","y","t","i","c","s">>, goal_lower) \/ In(<<"f","o","r","e","c","a","s","t">>, goal_lower)
        THEN Shopify_plan_analytics(context, c)
      ELSE IF In(<<"s","e","g","m","e","n","t">>, goal_lower)
                \/ (In(<<"c","u","s","t","o","m","e","r">>, goal_lower) /\ In(<<"r","e","v","i","e","w">>, goal_lower))
        THEN Shopify_plan_customer_segmentation(context, c)
      ELSE IF In(<<"d","a","i","l","y">>, goal_lower)
        THEN Shopify_plan_daily_operations(context, c)
      ELSE IF In(<<"w","e","e","k","l","y">>, goal_lower)
        THEN Shopify_plan_weekly_report(context, c)
      ELSE Shopify_plan_general_goal(goal, context, c)

\* self.plan_tasks(goal, context) of the leader class in use
plan_tasks(kind, goal, context, c) ==
  CASE kind = "bakery" -> BakeryLeader_plan_tasks(goal, context, c)
    [] kind = "repository" -> RepositoryLeader_plan_tasks(goal, context, c)
    [] kind = "shopify" -> ShopifyStoreLeader_plan_tasks(goal, context, c)

(***************************************************************************)
(* BaseLeaderAgent.  team_members is a dict kept in insertion order: a     *)
(* sequence of entries with distinct names.  Task objects live on a heap   *)
(* (heap[a] is the object at address a); self.tasks maps a task_id to the  *)
(* address stored under it, and the list `tasks` of a running execute_goal *)
(* holds addresses.                                                        *)
(***************************************************************************)
VARIABLES
  kind,           \* which leader class this instance is
  team_members,   \* self.team_members
  heap,           \* the Task objects created so far
  tasks,          \* self.tasks: task_id -> address
  task_counter,   \* self.task_counter
  initialized,    \* self.initialized
  pc,             \* position inside execute_goal, "idle" between calls
  goal_tasks,     \* execute_goal's local list `tasks`
  i,              \* index of the running for-loop of execute_goal
  report,         \* value returned by execute_goal when it was the call just made
  executed,       \* worker execute() invocations made by the current execute_goal
  failed_order,   \* tasks of the current execute_goal, in the order they became FAILED
  calls,          \* number of direct delegate_task / execute_task calls made
  sched_initialized, \* TaskSchedulerAgent._initialized
  sched_state,    \* TRUE once _initialize has filled self.state
  has_running,    \* TRUE once self.state has the key 'running'
  sched_thread,   \* self.state['thread']: no such key, None, or the thread of start()
  jobs,           \* the scheduler's Task objects created so far
  sched_tasks,    \* self.state['tasks']: the slots of the dict, in insertion order
  running,        \* self.state['running']
  history,        \* self.state['history']
  now,            \* the clock datetime.now() reads, in seconds
  threads,        \* the caller's thread and the poll loop's thread
  invocations     \* the calls of job actions made so far

leader_vars == <<kind, team_members, heap, tasks, task_counter, initialized, pc,
                 goal_tasks, i, report, executed, failed_order, calls>>

sched_vars == <<sched_initialized, sched_state, has_running, sched_thread, jobs, sched_tasks, running, history,
                now, threads, invocations>>

vars == <<kind, team_members, heap, tasks, task_counter, initialized, pc,
          goal_tasks, i, report, executed, failed_order, calls,
          sched_initialized, sched_state, has_running, sched_thread, jobs, sched_tasks,
          running, history,
          now, threads, invocations>>

Range(s) == {s[k] : k \in DOMAIN s}

MemberNames(tm) == {tm[k].name : k \in DOMAIN tm}

\* self.team_members.get(name): the index of the entry, 0 for None
MemberIndex(tm, name) ==
  IF name \in MemberNames(tm) THEN CHOOSE k \in DOMAIN tm : tm[k].name = name ELSE 0

\* Truth value of an Optional[str] under `not x`: None and "" are falsy
Falsy(x) == x = NONE \/ x = ""

\* a worker object: what calling its initialize does ("none": it has no such
\* attribute) and how often the leader has called it
Instance(hook) == [hook |-> hook, init_calls |-> 0]

\* self.team_members[agent_name] = {...}: an existing key keeps its position; the
\* instance is a worker without an initialize method
register_agent(tm, agent_name, capabilities) ==
  LET entry == [name |-> agent_name, instance |-> Instance("none"),
                capabilities |-> capabilities,
                tasks_assigned |-> 0, tasks_completed |-> 0, tasks_failed |-> 0]
  IN  IF agent_name \in MemberNames(tm)
        THEN [k \in DOMAIN tm |-> IF tm[k].name = agent_name THEN entry ELSE tm[k]]
        ELSE Append(tm, entry)

\* register_agent(agent_name, agent_instance, capabilities)
register_instance(tm, agent_name, agent_instance, capabilities) ==
  LET r == register_agent(tm, agent_name, capabilities)
  IN  [k \in DOMAIN r |->
         IF r[k].name = agent_name THEN [r[k] EXCEPT !.instance = agent_instance] ELSE r[k]]

\* BaseLeaderAgent.initialize, lines 133-140: every member that has an initialize
\* attribute gets it called, and what it raises is logged
initialize_team(tm) ==
  [k \in DOMAIN tm |->
     IF tm[k].instance.hook # "none"
       THEN [tm[k] EXCEPT !.instance.init_calls = @ + 1]
       ELSE tm[k]]

\* indices of the entries whose capabilities hold the task's type, in dict order
capable_agents(tm, task) ==
  LET F[k \in 0..Len(tm)] ==
        IF k = 0 THEN <<>>
        ELSE IF task.task_type \in tm[k].capabilities THEN Append(F[k - 1], k) ELSE F[k - 1]
  IN  F[Len(tm)]

\* (mutant) the first capable agent is taken, whatever its load
min_tasks_assigned_first_capable(tm, capable) == capable[1]

\* (mutant) ties go to the last capable agent instead of the first
min_tasks_assigned_last(tm, capable) ==
  LET best == CHOOSE p \in DOMAIN capable :
                /\ \A q \in DOMAIN capable :
                     tm[capable[q]].tasks_assigned >= tm[capable[p]].tasks_assigned
                /\ \A q \in DOMAIN capable :
                     q > p => tm[capable[q]].tasks_assigned > tm[capable[p]].tasks_assigned
  IN  capable[best]

\* min(capable_agents, key=tasks_assigned): the first minimal element
min_tasks_assigned(tm, capable) ==
  LET best == CHOOSE p \in DOMAIN capable :
                /\ \A q \in DOMAIN capable :
                     tm[capable[q]].tasks_assigned >= tm[capable[p]].tasks_assigned
                /\ \A q \in DOMAIN capable :
                     q < p => tm[capable[q]].tasks_assigned > tm[capable[p]].tasks_assigned
  IN  capable[best]

\* (mutant) a task nobody can handle is returned untouched
delegate_task_unmarked(tm, task) ==
  LET capable == capable_agents(tm, task)
  IN  IF capable = <<>>
        THEN [team_members |-> tm, task |-> task, ret |-> FALSE]
        ELSE LET chosen == min_tasks_assigned(tm, capable)
             IN  [team_members |-> [tm EXCEPT ![chosen].tasks_assigned = @ + 1],
                  task |-> [task EXCEPT !.assigned_to = tm[chosen].name,
                                        !.status = DELEGATED],
                  ret |-> TRUE]

\* delegate_task: the new registry, the task as left, and the return value
delegate_task(tm, task) ==
  LET capable == capable_agents(tm, task)
  IN  IF capable = <<>>
        THEN [team_members |-> tm,
              task |-> [task EXCEPT !.status = FAILED,
                                    !.error = "No agent available for task type"],
              ret |-> FALSE]
        ELSE LET chosen == min_tasks_assigned(tm, capable)
             IN  [team_members |-> [tm EXCEPT ![chosen].tasks_assigned = @ + 1],
                  task |-> [task EXCEPT !.assigned_to = tm[chosen].name,
                                        !.status = DELEGATED],
                  ret |-> TRUE]

\* execute_task, lines 204-209: the ValueError raised before the task is touched
execute_task_raises(tm, task) ==
  \/ Falsy(task.assigned_to)
  \/ MemberIndex(tm, task.assigned_to) = 0

\* execute_task, line 212
execute_task_start(task) == [task EXCEPT !.status = IN_PROGRESS]

\* What a worker's execute(**metadata) can do: return a value, return None, raise
WorkerOutcomes == {"value", "none", "raise"}

\* (mutant) finishing a task releases the worker's assignment count
execute_task_finish_releases(tm, task, outcome) ==
  LET a == MemberIndex(tm, task.assigned_to)
  IN  IF outcome = "raise"
        THEN [team_members |-> [tm EXCEPT ![a].tasks_failed = @ + 1,
                                          ![a].tasks_assigned = @ - 1],
              task |-> [task EXCEPT !.status = FAILED, !.error = "worker error"],
              raised |-> TRUE]
        ELSE [team_members |-> [tm EXCEPT ![a].tasks_completed = @ + 1,
                                          ![a].tasks_assigned = @ - 1],
              task |-> [task EXCEPT !.status = COMPLETED,
                                    !.result = IF outcome = "none" THEN NONE ELSE "result"],
              raised |-> FALSE]

\* execute_task, lines 218-235, for a worker outcome: the registry and task as left
execute_task_finish(tm, task, outcome) ==
  LET a == MemberIndex(tm, task.assigned_to)
  IN  IF outcome = "raise"
        THEN [team_members |-> [tm EXCEPT ![a].tasks_failed = @ + 1],
              task |-> [task EXCEPT !.status = FAILED, !.error = "worker error"],
              raised |-> TRUE]
        ELSE [team_members |-> [tm EXCEPT ![a].tasks_completed = @ + 1],
              task |-> [task EXCEPT !.status = COMPLETED,
                                    !.result = IF outcome = "none" THEN NONE ELSE "result"],
              raised |-> FALSE]

\* summary.success_rate: "0%" for no tasks, else f"{successful / total * 100:.1f}%",
\* held as the number of tenths of a percent
success_rate(successful, total) ==
  IF total = 0 THEN <<"0%">>
  ELSE <<(2000 * successful + total) \div (2 * total), "tenths%">>

\* (mutant) the failures are listed newest plan entry first
aggregate_results_failures_reversed(task_list) ==
  LET successful_tasks == SelectSeq(task_list, LAMBDA t : t.status = COMPLETED)
      failed_tasks == SelectSeq(task_list, LAMBDA t : t.status = FAILED)
      types == {successful_tasks[k].task_type : k \in DOMAIN successful_tasks}
      entry(t) == [task_id |-> t.task_id, assigned_to |-> t.assigned_to, result |-> t.result]
      failure(t) == [task_id |-> t.task_id, error |-> t.error]
  IN  [summary |-> [total_tasks |-> Len(task_list),
                    successful |-> Len(successful_tasks),
                    failed |-> Len(failed_tasks),
                    success_rate |-> success_rate(Len(successful_tasks), Len(task_list))],
       results |-> [ty \in types |->
                      LET of_type == SelectSeq(successful_tasks, LAMBDA t : t.task_type = ty)
                      IN  [k \in DOMAIN of_type |-> entry(of_type[k])]],
       failures |-> [k \in DOMAIN failed_tasks |->
                       failure(failed_tasks[Len(failed_tasks) + 1 - k])]]

\* aggregate_results of the three leaders (summary, results, failures; the
\* per-domain metrics are left out).  task_list is the list of Task objects.
aggregate_results(task_list) ==
  LET successful_tasks == SelectSeq(task_list, LAMBDA t : t.status = COMPLETED)
      failed_tasks == SelectSeq(task_list, LAMBDA t : t.status = FAILED)
      types == {successful_tasks[k].task_type : k \in DOMAIN successful_tasks}
      entry(t) == [task_id |-> t.task_id, assigned_to |-> t.assigned_to, result |-> t.result]
      failure(t) == [task_id |-> t.task_id, error |-> t.error]
  IN  [summary |-> [total_tasks |-> Len(task_list),
                    successful |-> Len(successful_tasks),
                    failed |-> Len(failed_tasks),
                    success_rate |-> success_rate(Len(successful_tasks), Len(task_list))],
       results |-> [ty \in types |->
                      LET of_type == SelectSeq(successful_tasks, LAMBDA t : t.task_type = ty)
                      IN  [k \in DOMAIN of_type |-> entry(of_type[k])]],
       failures |-> [k \in DOMAIN failed_tasks |-> failure(failed_tasks[k])]]

BakeryLeader_aggregate_results(task_list) == aggregate_results(task_list)

RepositoryLeader_aggregate_results(task_list) == aggregate_results(task_list)

ShopifyStoreLeader_aggregate_results(task_list) == aggregate_results(task_list)

leader_aggregate_results(k, task_list) ==
  CASE k = "bakery" -> BakeryLeader_aggregate_results(task_list)
    [] k = "repository" -> RepositoryLeader_aggregate_results(task_list)
    [] k = "shopify" -> ShopifyStoreLeader_aggregate_results(task_list)

\* (mutant) the loops of execute_goal walk the plan from its end
loop_task_reversed(task_list, k) == task_list[Len(task_list) + 1 - k]

\* `for task in tasks:` of execute_goal: the task of the k-th turn of a loop
loop_task(task_list, k) == task_list[k]

\* `for task in tasks: self.tasks[task.task_id] = task` for the new objects
\* at addresses first..last: a later task under the same id replaces an earlier one
store_tasks(store, hp, first, last) ==
  LET new_ids == {hp[a].task_id : a \in first..last}
      last_with(id) == CHOOSE a \in first..last :
                         /\ hp[a].task_id = id
                         /\ \A b \in first..last : hp[b].task_id = id => b <= a
  IN  [id \in DOMAIN store \cup new_ids |->
         IF id \in new_ids THEN last_with(id) ELSE store[id]]

(***************************************************************************)
(* Inputs.                                                                 *)
(***************************************************************************)
Leaders == {"bakery", "repository", "shopify"}

\* agent names; "" is the name a member without a usable name is registered under
Names == {"", "a"}

\* capability lists given to register_agent
CapChoices ==
  {{"general", "customer_support", "documentation"},
   {"customer_support", "sales_forecasting", "recipe_scale", "quality_control", "testing"}}

\* goal strings
G_say_hello == <<"s","a","y","_","h","e","l","l","o">>
G_customer_support == <<"c","u","s","t","o","m","e","r","_","s","u","p","p","o","r","t">>
G_Daily_Operations == <<"D","a","i","l","y","_","O","p","e","r","a","t","i","o","n","s">>
G_quality_check == <<"q","u","a","l","i","t","y","_","c","h","e","c","k">>
G_update_docs == <<"u","p","d","a","t","e","_","d","o","c","s">>

\* execute_goal(goal, context) calls made on the leader
Requests ==
  {[goal |-> G_say_hello, context |-> EmptyDict],
   [goal |-> G_customer_support, context |-> ("inquiries" :> <<"q1", "q2">>)],
   [goal |-> G_Daily_Operations,
    context |-> ("recipes" :> <<"bread">>) @@ ("products_to_check" :> <<"cake">>)],
   [goal |-> G_quality_check, context |-> EmptyDict],
   [goal |-> G_update_docs, context |-> EmptyDict]}

(***************************************************************************)
(* TaskSchedulerAgent: the job table, the Task objects and what the        *)
(* methods compute.                                                        *)
(***************************************************************************)
MaxTime == 1
MaxJobs == 2
MaxHistory == 2

\* None in a field that otherwise holds a datetime or an int
NoneInt == -1

\* truth value of an Optional[int]: None and 0 are falsy
TruthyInt(x) == x # NoneInt /\ x # 0

\* the scheduler's Task.__init__
Job(name, func, schedule) ==
  [name |-> name, func |-> func, schedule |-> schedule, last_run |-> NoneInt,
   next_run |-> NoneInt, runs |-> 0, enabled |-> TRUE]

\* f"every_{n}s", f"every_{n}m", f"every_{n}h"
every(n, unit) == <<"every_", n, unit>>

\* (mutant) every interval is taken as seconds
timedelta_in_seconds(n, unit) == n

\* timedelta(seconds=n), timedelta(minutes=n), timedelta(hours=n) in seconds
timedelta(n, unit) ==
  CASE unit = "s" -> n
    [] unit = "m" -> 60 * n
    [] unit = "h" -> 3600 * n

\* a dict slot: deleting a key leaves its slot behind, and iteration walks slots
dict_live(tbl) == {k \in DOMAIN tbl : tbl[k].live}

\* len(d), the `used` count a dict iterator checks
dict_len(tbl) == Cardinality(dict_live(tbl))

\* name in d
dict_has(tbl, name) == \E k \in dict_live(tbl) : tbl[k].name = name

\* d[name]
dict_get(tbl, name) == tbl[CHOOSE k \in dict_live(tbl) : tbl[k].name = name].ref

\* d[name] = ref: a present key keeps its slot, a new key takes a new slot
dict_set(tbl, name, ref) ==
  IF dict_has(tbl, name)
    THEN [k \in DOMAIN tbl |->
            IF tbl[k].live /\ tbl[k].name = name THEN [tbl[k] EXCEPT !.ref = ref] ELSE tbl[k]]
    ELSE Append(tbl, [name |-> name, ref |-> ref, live |-> TRUE])

\* del d[name]
dict_del(tbl, name) ==
  [k \in DOMAIN tbl |->
     IF tbl[k].live /\ tbl[k].name = name THEN [tbl[k] EXCEPT !.live = FALSE] ELSE tbl[k]]

\* self.state has no key 'thread'
NoKey == "<no key>"

\* BaseAgent.initialize with TaskSchedulerAgent._initialize: a scheduler that is
\* not initialized gets an empty state
initialize(st) ==
  IF st.initialized THEN st
  ELSE [initialized |-> TRUE, has_state |-> TRUE, has_running |-> TRUE, thread |-> NONE,
        tasks |-> <<>>, running |-> FALSE, history |-> <<>>]

\* add_task, lines 112-132: the Task object it builds at time clock; a schedule
\* of None is the empty string <<>>
add_task(name, func, args, clock) ==
  LET schedule == IF TruthyInt(args.interval_seconds) THEN every(args.interval_seconds, "s")
                  ELSE IF TruthyInt(args.interval_minutes) THEN every(args.interval_minutes, "m")
                  ELSE IF TruthyInt(args.interval_hours) THEN every(args.interval_hours, "h")
                  ELSE <<>>
      task == Job(name, func, schedule)
      next_run == IF args.run_immediately THEN clock
                  ELSE IF TruthyInt(args.interval_seconds)
                    THEN clock + timedelta(args.interval_seconds, "s")
                  ELSE IF TruthyInt(args.interval_minutes)
                    THEN clock + timedelta(args.interval_minutes, "m")
                  ELSE IF TruthyInt(args.interval_hours)
                    THEN clock + timedelta(args.interval_hours, "h")
                  ELSE task.next_run
  IN  [task EXCEPT !.next_run = next_run]

\* _update_next_run: the schedule string is parsed back into interval and unit
update_next_run(task, clock) ==
  IF task.schedule = <<>>
    THEN [task EXCEPT !.next_run = NoneInt]
  ELSE IF task.schedule[1] = "every_"
    THEN LET interval == task.schedule[2]
             unit == task.schedule[3]
         IN  IF unit \in {"s", "m", "h"}
               THEN [task EXCEPT !.next_run = clock + timedelta(interval, unit)]
               ELSE task
  ELSE task

\* the condition of line 171 for a tick that read the clock at call_now
is_due(task, call_now) ==
  task.enabled /\ task.next_run # NoneInt /\ task.next_run <= call_now

\* the history entries _execute_task appends
success_entry(task, clock) ==
  [task |-> task.name, timestamp |-> clock, status |-> "success", runs |-> task.runs]

failed_entry(task, clock) ==
  [task |-> task.name, timestamp |-> clock, status |-> "failed",
   error |-> <<"Task ", task.name, " failed: ", "job error">>]

\* the Python slice s[start:]
slice_from(s, start) ==
  LET n == Len(s)
      k == IF start < 0 THEN (IF start + n < 0 THEN 0 ELSE start + n)
           ELSE (IF start > n THEN n ELSE start)
  IN  SubSeq(s, k + 1, n)

\* get_history, line 280: self.state['history'][-limit:]
get_history(hist, limit) == slice_from(hist, 0 - limit)

\* Threads of the process: the caller's, the one start() creates, and another
\* thread of the application that calls start(blocking=True)
Caller == "caller"

Poller == "poller"

Blocker == "blocker"

Threads == {Caller, Poller, Blocker}

\* the threads that can run _run_loop
LoopThreads == {Poller, Blocker}

\* a thread that is in no call; the poll loop's thread does not exist yet
Idle(t) ==
  [pc |-> IF t = Caller THEN "idle" ELSE "off",
   task_name |-> NONE, call_now |-> 0, pos |-> 0, used |-> 0, left |-> 0, cur |-> 0,
   runs_read |-> 0, results |-> <<>>, exc |-> NONE, due_at_call |-> {}, ran |-> <<>>,
   wake |-> 0, returned |-> <<>>]

\* TaskSchedulerAgent(): BaseAgent.__init__ leaves state empty and _initialized False
SchedulerNew ==
  /\ sched_initialized = FALSE
  /\ sched_state = FALSE
  /\ has_running = FALSE
  /\ sched_thread = NoKey
  /\ jobs = <<>>
  /\ sched_tasks = <<>>
  /\ running = FALSE
  /\ history = <<>>
  /\ now = 0
  /\ threads = [t \in Threads |-> Idle(t)]
  /\ invocations = <<>>

(***************************************************************************)
(* The leader as a state machine.                                          *)
(***************************************************************************)
\* the log of failures after a step on the task at address a: a is added when
\* the step has set its status to FAILED (delegate_task line 177, execute_task
\* line 229)
became_failed(log, hp, hp2, a) ==
  IF hp[a].status # FAILED /\ hp2[a].status = FAILED THEN Append(log, a) ELSE log

Init ==
  /\ kind \in Leaders
  /\ team_members = <<>>
  /\ heap = <<>>
  /\ tasks = EmptyDict
  /\ task_counter = 0
  /\ initialized = FALSE
  /\ pc = "idle"
  /\ goal_tasks = <<>>
  /\ i = 0
  /\ report = <<>>
  /\ executed = <<>>
  /\ failed_order = <<>>
  /\ calls = 0
  /\ SchedulerNew

\* leader.register_agent(agent_name, agent_instance, capabilities)
RegisterAgent(agent_name, capabilities) ==
  /\ pc = "idle"
  /\ agent_name \in MemberNames(team_members) \/ Len(team_members) < MaxWorkers
  /\ team_members' = register_agent(team_members, agent_name, capabilities)
  /\ report' = <<>>
  /\ UNCHANGED <<kind, heap, tasks, task_counter, initialized, pc, goal_tasks, i,
                 executed, calls, failed_order>>
  /\ UNCHANGED sched_vars

\* leader.register_agent(agent_name, agent_instance, capabilities) with a worker
\* whose initialize does what hook says
RegisterInstance(agent_name, capabilities, hook) ==
  /\ pc = "idle"
  /\ agent_name \in MemberNames(team_members) \/ Len(team_members) < MaxWorkers
  /\ team_members' = register_instance(team_members, agent_name, Instance(hook),
                                       capabilities)
  /\ report' = <<>>
  /\ UNCHANGED <<kind, heap, tasks, task_counter, initialized, pc, goal_tasks, i,
                 executed, calls, failed_order>>
  /\ UNCHANGED sched_vars

\* leader.initialize(), also called by `with leader:` (__enter__, line 343)
Initialize ==
  /\ pc = "idle"
  /\ \A k \in DOMAIN team_members : team_members[k].instance.init_calls < MaxInitCalls
  /\ team_members' = initialize_team(team_members)
  /\ initialized' = TRUE
  /\ report' = <<>>
  /\ UNCHANGED <<kind, heap, tasks, task_counter, pc, goal_tasks, i, executed, calls,
                 failed_order>>
  /\ UNCHANGED sched_vars

\* leader.delegate_task(task), called directly on a Task object
DelegateTaskCall(a) ==
  /\ pc = "idle"
  /\ calls < MaxCalls
  /\ LET d == delegate_task(team_members, heap[a])
     IN  /\ team_members' = d.team_members
         /\ heap' = [heap EXCEPT ![a] = d.task]
  /\ calls' = calls + 1
  /\ report' = <<>>
  /\ UNCHANGED <<kind, tasks, task_counter, initialized, pc, goal_tasks, i, executed, failed_order>>
  /\ UNCHANGED sched_vars

\* leader.execute_task(task), called directly on a Task object; the ValueError
\* and the worker's exception both reach the caller
ExecuteTaskCall(a, outcome) ==
  /\ pc = "idle"
  /\ calls < MaxCalls
  /\ outcome \in WorkerOutcomes
  /\ IF execute_task_raises(team_members, heap[a])
       THEN UNCHANGED <<team_members, heap>>
       ELSE LET e == execute_task_finish(team_members, execute_task_start(heap[a]), outcome)
            IN  /\ team_members' = e.team_members
                /\ heap' = [heap EXCEPT ![a] = e.task]
  /\ calls' = calls + 1
  /\ report' = <<>>
  /\ UNCHANGED <<kind, tasks, task_counter, initialized, pc, goal_tasks, i, executed, failed_order>>
  /\ UNCHANGED sched_vars

\* execute_goal, lines 261-275: initialize on first use, plan, store
ExecuteGoalPlan(goal, context, max_tasks) ==
  /\ pc = "idle"
  /\ LET p == plan_tasks(kind, goal, context, task_counter)
         first == Len(heap) + 1
         last == Len(heap) + Len(p.tasks)
     IN  /\ last <= max_tasks
         /\ heap' = heap \o p.tasks
         /\ tasks' = store_tasks(tasks, heap', first, last)
         /\ task_counter' = p.counter
         /\ goal_tasks' = [k \in 1..Len(p.tasks) |-> Len(heap) + k]
  /\ team_members' = IF initialized THEN team_members ELSE initialize_team(team_members)
  /\ initialized' = TRUE
  /\ pc' = "delegate"
  /\ i' = 1
  /\ report' = <<>>
  /\ failed_order' = <<>>
  /\ UNCHANGED <<kind, executed, calls>>
  /\ UNCHANGED sched_vars

\* execute_goal, lines 279-280: one turn of the delegation loop
ExecuteGoalDelegate ==
  /\ pc = "delegate"
  /\ i <= Len(goal_tasks)
  /\ LET d == delegate_task(team_members, heap[loop_task(goal_tasks, i)])
     IN  /\ team_members' = d.team_members
         /\ heap' = [heap EXCEPT ![loop_task(goal_tasks, i)] = d.task]
  /\ failed_order' = became_failed(failed_order, heap, heap', loop_task(goal_tasks, i))
  /\ i' = i + 1
  /\ UNCHANGED <<kind, tasks, task_counter, initialized, pc, goal_tasks, report,
                 executed, calls>>
  /\ UNCHANGED sched_vars

\* the delegation loop ends and the execution loop begins
ExecuteGoalDelegated ==
  /\ pc = "delegate"
  /\ i > Len(goal_tasks)
  /\ pc' = "execute"
  /\ i' = 1
  /\ UNCHANGED <<kind, team_members, heap, tasks, task_counter, initialized,
                 goal_tasks, report, executed, calls, failed_order>>
  /\ UNCHANGED sched_vars

\* execute_goal, lines 286-291 with execute_task up to the worker's call: the
\* ValueError is caught and the loop moves on, or the worker is entered
ExecuteGoalExecute ==
  /\ pc = "execute"
  /\ i <= Len(goal_tasks)
  /\ IF execute_task_raises(team_members, heap[loop_task(goal_tasks, i)])
       THEN /\ i' = i + 1
            /\ UNCHANGED <<heap, pc, executed>>
       ELSE /\ heap' = [heap EXCEPT ![loop_task(goal_tasks, i)] = execute_task_start(@)]
            /\ executed' = Append(executed, [task |-> loop_task(goal_tasks, i),
                                             worker |-> heap[loop_task(goal_tasks, i)].assigned_to])
            /\ pc' = "running"
            /\ UNCHANGED i
  /\ UNCHANGED <<kind, team_members, tasks, task_counter, initialized, goal_tasks,
                 report, calls, failed_order>>
  /\ UNCHANGED sched_vars

\* the worker returns or raises; execute_task records it and execute_goal
\* catches what execute_task re-raises
ExecuteGoalWorkerDone(outcome) ==
  /\ pc = "running"
  /\ LET e == execute_task_finish(team_members, heap[loop_task(goal_tasks, i)], outcome)
     IN  /\ team_members' = e.team_members
         /\ heap' = [heap EXCEPT ![loop_task(goal_tasks, i)] = e.task]
  /\ failed_order' = became_failed(failed_order, heap, heap', loop_task(goal_tasks, i))
  /\ pc' = "execute"
  /\ i' = i + 1
  /\ UNCHANGED <<kind, tasks, task_counter, initialized, goal_tasks, report,
                 executed, calls>>
  /\ UNCHANGED sched_vars

\* execute_goal, lines 296-302: aggregate and return
ExecuteGoalReturn ==
  /\ pc = "execute"
  /\ i > Len(goal_tasks)
  /\ report' = <<leader_aggregate_results(kind,
                   [k \in DOMAIN goal_tasks |-> heap[goal_tasks[k]]])>>
  /\ pc' = "idle"
  /\ goal_tasks' = <<>>
  /\ i' = 0
  /\ executed' = <<>>
  /\ failed_order' = <<>>
  /\ UNCHANGED <<kind, team_members, heap, tasks, task_counter, initialized, calls>>
  /\ UNCHANGED sched_vars

\* Workers called by execute_goal return a value or raise
GoalOutcomes == {"value", "raise"}

\* register_agent and execute_goal calls
Next ==
  \/ \E n \in Names, caps \in CapChoices : RegisterAgent(n, caps)
  \/ \E r \in Requests : ExecuteGoalPlan(r.goal, r.context, MaxTasks)
  \/ ExecuteGoalDelegate
  \/ ExecuteGoalDelegated
  \/ ExecuteGoalExecute
  \/ \E o \in GoalOutcomes : ExecuteGoalWorkerDone(o)
  \/ ExecuteGoalReturn

Spec == Init /\ [][Next]_vars

\* ... and delegate_task and execute_task called by the caller on stored tasks
NextCalls ==
  \/ Next
  \/ \E a \in DOMAIN heap : DelegateTaskCall(a)
  \/ \E a \in DOMAIN heap, o \in WorkerOutcomes : ExecuteTaskCall(a, o)

\* a ShopifyStoreLeader driven through all four calls
InitCalls == Init /\ kind = "shopify"

SpecCalls == InitCalls /\ [][NextCalls]_vars

\* Two workers are registered on a fresh leader and no one registers after that
\* the names of the two workers of the balance runs
BalanceNames == {"a", "b"}

InitBalance ==
  /\ kind \in Leaders
  /\ \E n1 \in BalanceNames, c1 \in CapChoices, c2 \in CapChoices : \E n2 \in BalanceNames \ {n1} :
       team_members = register_agent(register_agent(<<>>, n1, c1), n2, c2)
  /\ heap = <<>>
  /\ tasks = EmptyDict
  /\ task_counter = 0
  /\ initialized = FALSE
  /\ pc = "idle"
  /\ goal_tasks = <<>>
  /\ i = 0
  /\ report = <<>>
  /\ executed = <<>>
  /\ failed_order = <<>>
  /\ calls = 0
  /\ SchedulerNew

NextBalance ==
  \/ \E r \in Requests : ExecuteGoalPlan(r.goal, r.context, MaxBalanceTasks)
  \/ ExecuteGoalDelegate
  \/ ExecuteGoalDelegated
  \/ ExecuteGoalExecute
  \/ \E o \in GoalOutcomes : ExecuteGoalWorkerDone(o)
  \/ ExecuteGoalReturn

SpecBalance == InitBalance /\ [][NextBalance]_vars

\* what a worker's initialize does: the worker has none, it returns, it raises
Hooks == {"none", "ok", "raise"}

\* one goal that plans one task every worker of TeamCaps can take
TeamRequest == [goal |-> G_say_hello, context |-> EmptyDict]

TeamCaps == {"general", "customer_support", "documentation"}

\* workers with and without initialize hooks are registered, the leader is
\* initialized explicitly or through `with`, and goals are executed
NextInit ==
  \/ \E n \in Names, h \in Hooks : RegisterInstance(n, TeamCaps, h)
  \/ Initialize
  \/ ExecuteGoalPlan(TeamRequest.goal, TeamRequest.context, MaxTasks)
  \/ ExecuteGoalDelegate
  \/ ExecuteGoalDelegated
  \/ ExecuteGoalExecute
  \/ \E o \in GoalOutcomes : ExecuteGoalWorkerDone(o)
  \/ ExecuteGoalReturn

SpecInit == InitCalls /\ [][NextInit]_vars

\* get_team_status()['tasks'], lines 321-327: the stored tasks counted by status
get_team_status(store, hp) ==
  LET with(status) == Cardinality({id \in DOMAIN store : hp[store[id]].status = status})
  IN  [total |-> Cardinality(DOMAIN store),
       pending |-> with(PENDING),
       in_progress |-> with(IN_PROGRESS),
       completed |-> with(COMPLETED),
       failed |-> with(FAILED)]

\* register_agent with a name that is not registered yet
RegisterNew(agent_name, capabilities) ==
  /\ agent_name \notin MemberNames(team_members)
  /\ RegisterAgent(agent_name, capabilities)

\* a leader driven by register_agent with distinct names and by execute_goal
NextTeam ==
  \/ \E n \in Names, caps \in CapChoices : RegisterNew(n, caps)
  \/ \E r \in Requests : ExecuteGoalPlan(r.goal, r.context, MaxTasks)
  \/ ExecuteGoalDelegate
  \/ ExecuteGoalDelegated
  \/ ExecuteGoalExecute
  \/ \E o \in GoalOutcomes : ExecuteGoalWorkerDone(o)
  \/ ExecuteGoalReturn

SpecTeam == Init /\ [][NextTeam]_vars

(***************************************************************************)
(* The scheduler as a state machine: the caller's thread and the poll      *)
(* loop's thread take the steps of execute() one at a time.                *)
(***************************************************************************)
\* self.state and self._initialized as one value
SchedState ==
  [initialized |-> sched_initialized, has_state |-> sched_state,
   has_running |-> has_running, thread |-> sched_thread, tasks |-> sched_tasks,
   running |-> running, history |-> history]

SetSchedState(st) ==
  /\ sched_initialized' = st.initialized
  /\ sched_state' = st.has_state
  /\ has_running' = st.has_running
  /\ sched_thread' = st.thread
  /\ sched_tasks' = st.tasks
  /\ running' = st.running
  /\ history' = st.history

\* (mutant) an exception that reaches the poll loop ends its thread
end_of_call_uncaught(t, th, exc, clock) ==
  IF t = Caller
    THEN [th EXCEPT !.pc = "idle", !.exc = exc, !.cur = 0, !.pos = 0, !.used = 0,
                    !.left = 0, !.runs_read = 0]
    ELSE [th EXCEPT !.pc = IF exc = NONE THEN "sleep" ELSE "dead", !.exc = exc, !.cur = 0,
                    !.pos = 0, !.used = 0, !.left = 0, !.runs_read = 0,
                    !.wake = clock + 1]

\* a call ends in thread t, with exception exc or NONE (the time the call read
\* stays on record): the caller is free again,
\* the poll loop logs the exception and sleeps a second (lines 257-262)
end_of_call(t, th, exc, clock) ==
  IF t = Caller
    THEN [th EXCEPT !.pc = "idle", !.exc = exc, !.cur = 0, !.pos = 0, !.used = 0,
                    !.left = 0, !.runs_read = 0]
    ELSE [th EXCEPT !.pc = "sleep", !.exc = exc, !.cur = 0, !.pos = 0, !.used = 0,
                    !.left = 0, !.runs_read = 0, !.wake = clock + 1]

\* (mutant) a named job is run only if it is due
execute_begin_only_due(t, task_name, tbl, jb, clock) ==
  IF ~Falsy(task_name)
    THEN IF ~dict_has(tbl, task_name)
           THEN end_of_call(t, [Idle(t) EXCEPT !.task_name = task_name], "ValueError", clock)
         ELSE IF ~is_due(jb[dict_get(tbl, task_name)], clock)
           THEN end_of_call(t, [Idle(t) EXCEPT !.task_name = task_name], NONE, clock)
         ELSE [Idle(t) EXCEPT !.pc = "func", !.task_name = task_name,
                              !.cur = dict_get(tbl, task_name)]
    ELSE [Idle(t) EXCEPT !.pc = "iter", !.call_now = clock, !.used = dict_len(tbl),
                         !.left = dict_len(tbl),
                         !.due_at_call = {tbl[k].ref : k \in {s \in dict_live(tbl) :
                                                        is_due(jb[tbl[s].ref], clock)}}]

\* execute(task_name), lines 158-168, on job table tbl: the thread after them
execute_begin(t, task_name, tbl, jb, clock) ==
  IF ~Falsy(task_name)
    THEN IF ~dict_has(tbl, task_name)
           THEN end_of_call(t, [Idle(t) EXCEPT !.task_name = task_name], "ValueError", clock)
           ELSE [Idle(t) EXCEPT !.pc = "func", !.task_name = task_name,
                                !.cur = dict_get(tbl, task_name)]
    ELSE [Idle(t) EXCEPT !.pc = "iter", !.call_now = clock, !.used = dict_len(tbl),
                         !.left = dict_len(tbl),
                         !.due_at_call = {tbl[k].ref : k \in {s \in dict_live(tbl) :
                                                        is_due(jb[tbl[s].ref], clock)}}]

\* scheduler.add_task(name, func, interval_seconds=..., run_immediately=...)
AddTask(name, func, args) ==
  /\ threads[Caller].pc = "idle"
  /\ Len(jobs) < MaxJobs
  /\ jobs' = Append(jobs, add_task(name, func, args, now))
  /\ LET st == initialize(SchedState)
     IN  SetSchedState([st EXCEPT !.tasks = dict_set(st.tasks, name, Len(jobs) + 1)])
  /\ threads' = [threads EXCEPT ![Caller] = Idle(Caller)]
  /\ UNCHANGED <<now, invocations, leader_vars>>

\* scheduler.remove_task(name); self.state['tasks'] raises KeyError on a state
\* that _initialize has not filled
RemoveTask(name) ==
  /\ threads[Caller].pc = "idle"
  /\ IF ~sched_state
       THEN /\ threads' = [threads EXCEPT ![Caller] = [Idle(Caller) EXCEPT !.exc = "KeyError"]]
            /\ UNCHANGED sched_tasks
       ELSE /\ sched_tasks' = dict_del(sched_tasks, name)
            /\ threads' = [threads EXCEPT ![Caller] = Idle(Caller)]
  /\ UNCHANGED <<sched_initialized, sched_state, has_running, sched_thread,
                 jobs, running, history, now,
                 invocations, leader_vars>>

\* the caller sets the enabled attribute of a job of the table
SetEnabled(name, value) ==
  /\ threads[Caller].pc = "idle"
  /\ sched_state
  /\ dict_has(sched_tasks, name)
  /\ jobs[dict_get(sched_tasks, name)].enabled # value
  /\ jobs' = [jobs EXCEPT ![dict_get(sched_tasks, name)].enabled = value]
  /\ threads' = [threads EXCEPT ![Caller] = Idle(Caller)]
  /\ UNCHANGED <<sched_initialized, sched_state, has_running, sched_thread,
                 sched_tasks, running, history, now,
                 invocations, leader_vars>>

\* scheduler.execute(task_name) called by the caller: lines 155-168
ExecuteCall(task_name) ==
  /\ threads[Caller].pc = "idle"
  /\ LET st == initialize(SchedState)
     IN  /\ SetSchedState(st)
         /\ threads' = [threads EXCEPT
                          ![Caller] = execute_begin(Caller, task_name, st.tasks, jobs, now)]
  /\ UNCHANGED <<jobs, now, invocations, leader_vars>>

\* one turn of `for name, task in self.state['tasks'].items()`, lines 170-171:
\* the iterator raises if the dict changed size, or if it finds a slot after it
\* has yielded as many items as the dict had, else yields the next live slot
IterNext(t) ==
  /\ threads[t].pc = "iter"
  /\ LET th == threads[t]
         rest == {k \in dict_live(sched_tasks) : k > th.pos}
     IN  IF dict_len(sched_tasks) # th.used
           THEN threads' = [threads EXCEPT ![t] = end_of_call(t, th, "RuntimeError", now)]
         ELSE IF rest = {}
           THEN threads' = [threads EXCEPT ![t] = end_of_call(t, th, NONE, now)]
         ELSE IF th.left = 0
           THEN threads' = [threads EXCEPT ![t] = end_of_call(t, th, "RuntimeError", now)]
         ELSE LET k == CHOOSE s \in rest : \A r \in rest : s <= r
                  ref == sched_tasks[k].ref
                  nxt == [th EXCEPT !.pos = k, !.left = @ - 1]
              IN  threads' = [threads EXCEPT ![t] =
                                IF is_due(jobs[ref], th.call_now)
                                  THEN [nxt EXCEPT !.pc = "func", !.cur = ref]
                                  ELSE nxt]
  /\ UNCHANGED <<sched_initialized, sched_state, has_running, sched_thread,
                 jobs, sched_tasks, running, history,
                 now, invocations, leader_vars>>

\* threads between reading and writing a job's fields
InFlight == {t \in Threads : threads[t].pc = "finish"}

\* Task.execute, lines 46-48 up to the read of self.runs, inside _execute_task:
\* the action returns, or raises and _execute_task records the failure and re-raises
Func(t) ==
  /\ threads[t].pc = "func"
  /\ Len(history) + Cardinality(InFlight) < MaxHistory
  /\ LET th == threads[t]
         task == jobs[th.cur]
     IN  /\ invocations' = Append(invocations, [job |-> th.cur, due |-> task.next_run,
                                                thread |-> t, ok |-> task.func = "ok"])
         /\ IF task.func = "ok"
              THEN /\ jobs' = [jobs EXCEPT ![th.cur].last_run = now]
                   /\ threads' = [threads EXCEPT ![t] =
                                    [th EXCEPT !.pc = "finish", !.runs_read = task.runs,
                                               !.ran = Append(@, th.cur)]]
                   /\ UNCHANGED history
              ELSE /\ history' = Append(history, failed_entry(task, now))
                   /\ threads' = [threads EXCEPT ![t] =
                                    end_of_call(t, [th EXCEPT !.ran = Append(@, th.cur)],
                                                "Exception", now)]
                   /\ UNCHANGED jobs
  /\ UNCHANGED <<sched_initialized, sched_state, has_running, sched_thread,
                 sched_tasks, running, now, leader_vars>>

\* the write of self.runs (line 48), _update_next_run and the history entry
\* (lines 184-192); execute() stores the result or returns it
Finish(t) ==
  /\ threads[t].pc = "finish"
  /\ LET th == threads[t]
         task == update_next_run([jobs[th.cur] EXCEPT !.runs = th.runs_read + 1], now)
         named == [th EXCEPT !.results = IF task.name \in Range(@) THEN @
                                         ELSE Append(@, task.name)]
     IN  /\ jobs' = [jobs EXCEPT ![th.cur] = task]
         /\ history' = Append(history, success_entry(task, now))
         /\ threads' = [threads EXCEPT ![t] =
                          IF Falsy(th.task_name)
                            THEN [named EXCEPT !.pc = "iter", !.cur = 0, !.runs_read = 0]
                            ELSE end_of_call(t, named, NONE, now)]
  /\ UNCHANGED <<sched_initialized, sched_state, has_running, sched_thread,
                 sched_tasks, running, now, invocations,
                 leader_vars>>

\* scheduler.start(): reads self.state['running']; a no-op while running, else
\* the poll loop's thread starts and is stored in self.state['thread']
Start ==
  /\ threads[Caller].pc = "idle"
  /\ IF ~has_running
       THEN /\ threads' = [threads EXCEPT ![Caller] = [Idle(Caller) EXCEPT !.exc = "KeyError"]]
            /\ UNCHANGED <<running, sched_thread>>
     ELSE IF running
       THEN /\ threads' = [threads EXCEPT ![Caller] = Idle(Caller)]
            /\ UNCHANGED <<running, sched_thread>>
     ELSE /\ threads[Poller].pc \in {"off", "dead"}
          /\ running' = TRUE
          /\ sched_thread' = Poller
          /\ threads' = [threads EXCEPT ![Caller] = Idle(Caller),
                                        ![Poller] = [Idle(Poller) EXCEPT !.pc = "loop"]]
  /\ UNCHANGED <<sched_initialized, sched_state, has_running, jobs, sched_tasks, history,
                 now, invocations, leader_vars>>

\* scheduler.stop(): writes self.state['running'] = False, reads
\* self.state['thread'] and joins the thread, if there is one, for at most 5
\* seconds
Stop ==
  /\ threads[Caller].pc = "idle"
  /\ running' = FALSE
  /\ has_running' = TRUE
  /\ threads' = [threads EXCEPT ![Caller] =
                   IF sched_thread = NoKey THEN [Idle(Caller) EXCEPT !.exc = "KeyError"]
                   ELSE IF sched_thread = NONE THEN Idle(Caller)
                   ELSE [Idle(Caller) EXCEPT !.pc = "join", !.wake = now + 5]]
  /\ UNCHANGED <<sched_initialized, sched_state, sched_thread, jobs, sched_tasks, history,
                 now, invocations, leader_vars>>

\* thread.join(timeout=5) returns
JoinReturn ==
  /\ threads[Caller].pc = "join"
  /\ threads[Poller].pc = "dead" \/ now >= threads[Caller].wake
  /\ threads' = [threads EXCEPT ![Caller] = Idle(Caller)]
  /\ UNCHANGED <<sched_initialized, sched_state, has_running, sched_thread,
                 jobs, sched_tasks, running, history,
                 now, invocations, leader_vars>>

\* (mutant) the loop never reads the running flag
LoopTest_forever(t) ==
  /\ threads[t].pc = "loop"
  /\ LET st == initialize(SchedState)
     IN  /\ SetSchedState(st)
         /\ threads' = [threads EXCEPT
                          ![t] = execute_begin(t, NONE, st.tasks, jobs, now)]
  /\ UNCHANGED <<jobs, now, invocations, leader_vars>>

\* _run_loop in thread t, lines 256-258: the loop tests the flag and calls
\* execute(), or ends (and a blocking start() returns)
LoopTest(t) ==
  /\ threads[t].pc = "loop"
  /\ IF running
       THEN LET st == initialize(SchedState)
            IN  /\ SetSchedState(st)
                /\ threads' = [threads EXCEPT
                                 ![t] = execute_begin(t, NONE, st.tasks, jobs, now)]
       ELSE /\ threads' = [threads EXCEPT ![t] = [Idle(t) EXCEPT !.pc = "dead"]]
            /\ UNCHANGED <<sched_initialized, sched_state, has_running, sched_thread,
                           sched_tasks, running, history>>
  /\ UNCHANGED <<jobs, now, invocations, leader_vars>>

\* time.sleep(1) of line 262 is over in thread t
LoopWake(t) ==
  /\ threads[t].pc = "sleep"
  /\ now >= threads[t].wake
  /\ threads' = [threads EXCEPT ![t].pc = "loop"]
  /\ UNCHANGED <<sched_initialized, sched_state, has_running, sched_thread,
                 jobs, sched_tasks, running, history,
                 now, invocations, leader_vars>>

\* the loop of the thread that start() created
RunLoop == LoopTest(Poller)

Wake == LoopWake(Poller)

\* scheduler.start(blocking=True) called by another thread of the application:
\* a no-op while running, else that thread runs the loop itself
StartBlocking ==
  /\ threads[Blocker].pc \in {"off", "dead"}
  /\ IF ~has_running
       THEN /\ threads' = [threads EXCEPT ![Blocker] = [Idle(Blocker) EXCEPT !.exc = "KeyError"]]
            /\ UNCHANGED running
     ELSE IF running
       THEN /\ threads' = [threads EXCEPT ![Blocker] = Idle(Blocker)]
            /\ UNCHANGED running
     ELSE /\ running' = TRUE
          /\ threads' = [threads EXCEPT ![Blocker] = [Idle(Blocker) EXCEPT !.pc = "loop"]]
  /\ UNCHANGED <<sched_initialized, sched_state, has_running, sched_thread, jobs,
                 sched_tasks, history, now, invocations, leader_vars>>

\* scheduler.cleanup(), or the end of a `with` block: _cleanup calls stop(), and
\* if stop() raises, _initialized keeps its value
Cleanup ==
  /\ threads[Caller].pc = "idle"
  /\ running' = FALSE
  /\ has_running' = TRUE
  /\ IF sched_thread = NoKey
       THEN /\ threads' = [threads EXCEPT ![Caller] = [Idle(Caller) EXCEPT !.exc = "KeyError"]]
            /\ UNCHANGED sched_initialized
     ELSE IF sched_thread = NONE
       THEN /\ threads' = [threads EXCEPT ![Caller] = Idle(Caller)]
            /\ sched_initialized' = FALSE
     ELSE /\ threads' = [threads EXCEPT ![Caller] =
                           [Idle(Caller) EXCEPT !.pc = "cleanup_join", !.wake = now + 5]]
          /\ UNCHANGED sched_initialized
  /\ UNCHANGED <<sched_state, sched_thread, jobs, sched_tasks, history, now, invocations,
                 leader_vars>>

\* the join inside cleanup() returns and cleanup() clears _initialized
CleanupReturn ==
  /\ threads[Caller].pc = "cleanup_join"
  /\ threads[Poller].pc = "dead" \/ now >= threads[Caller].wake
  /\ threads' = [threads EXCEPT ![Caller] = Idle(Caller)]
  /\ sched_initialized' = FALSE
  /\ UNCHANGED <<sched_state, has_running, sched_thread,
                 jobs, sched_tasks, running, history, now, invocations,
                 leader_vars>>

\* scheduler.get_history(limit) called by the caller
GetHistory(limit) ==
  /\ threads[Caller].pc = "idle"
  /\ threads' = [threads EXCEPT ![Caller] =
                   IF ~sched_state THEN [Idle(Caller) EXCEPT !.exc = "KeyError"]
                   ELSE [Idle(Caller) EXCEPT !.returned = get_history(history, limit)]]
  /\ UNCHANGED <<sched_initialized, sched_state, has_running, sched_thread, jobs,
                 sched_tasks, running, history, now, invocations, leader_vars>>

\* a second passes
Tick ==
  /\ now < MaxTime
  /\ now' = now + 1
  /\ UNCHANGED <<sched_initialized, sched_state, has_running, sched_thread,
                 jobs, sched_tasks, running, history,
                 threads, invocations, leader_vars>>

\* Inputs of the scheduler
JobNames == {"a", "b"}

\* what a job's action does when called
Funcs == {"ok", "bad"}

Args(s, m, h, immediately) ==
  [interval_seconds |-> s, interval_minutes |-> m, interval_hours |-> h,
   run_immediately |-> immediately]

AddArgs ==
  {Args(NoneInt, NoneInt, NoneInt, FALSE), Args(NoneInt, NoneInt, NoneInt, TRUE),
   Args(1, NoneInt, NoneInt, FALSE), Args(NoneInt, 1, NoneInt, TRUE)}

InitSched == Init /\ kind = "shopify"

\* one thread drives the scheduler: add_task, execute
NextSched ==
  \/ \E n \in JobNames, f \in Funcs, a \in AddArgs : AddTask(n, f, a)
  \/ \E n \in JobNames, v \in BOOLEAN : SetEnabled(n, v)
  \/ \E n \in JobNames \cup {NONE} : ExecuteCall(n)
  \/ IterNext(Caller)
  \/ Func(Caller)
  \/ Finish(Caller)
  \/ Tick

SpecSched == InitSched /\ [][NextSched]_vars

\* jobs given to a scheduler whose poll loop runs: every second, due at once
PollArgs == {Args(1, NoneInt, NoneInt, TRUE)}

\* the poll loop's thread runs beside the caller, who adds and removes jobs and
\* calls execute() itself
NextPoll ==
  \/ \E n \in JobNames, f \in Funcs, a \in PollArgs : AddTask(n, f, a)
  \/ \E n \in JobNames : RemoveTask(n)
  \/ ExecuteCall(NONE)
  \/ Start
  \/ RunLoop
  \/ Wake
  \/ \E t \in Threads : IterNext(t)
  \/ \E t \in Threads : Func(t)
  \/ \E t \in Threads : Finish(t)
  \/ Tick

SpecPoll == InitSched /\ [][NextPoll]_vars

\* jobs with no interval: to run once at the next tick, or never
OnceArgs == {Args(NoneInt, NoneInt, NoneInt, TRUE), Args(NoneInt, NoneInt, NoneInt, FALSE)}

\* the one job name of a scheduler that is started and stopped
LoopNames == {"a"}

\* the steps of a thread that runs the poll loop
LoopStep(t) ==
  \/ LoopTest(t)
  \/ LoopWake(t)
  \/ IterNext(t)
  \/ Func(t)
  \/ Finish(t)

\* the caller starts and stops the scheduler after adding jobs, and another
\* thread may run the loop itself with start(blocking=True)
NextLoop ==
  \/ \E n \in LoopNames, f \in Funcs, a \in OnceArgs : AddTask(n, f, a)
  \/ Start
  \/ StartBlocking
  \/ Stop
  \/ JoinReturn
  \/ \E t \in LoopThreads : LoopStep(t)
  \/ Tick

\* every thread that can take a step takes one, and time passes
SpecLoop ==
  /\ InitSched
  /\ [][NextLoop]_vars
  /\ \A t \in LoopThreads : WF_vars(LoopStep(t))
  /\ WF_vars(JoinReturn)
  /\ WF_vars(Tick)

\* the limits given to get_history
MaxLimit == 3

Limits == 0..MaxLimit

\* the caller also reads the history
NextHist ==
  \/ NextSched
  \/ \E limit \in Limits : GetHistory(limit)

SpecHist == InitSched /\ [][NextHist]_vars

\* a scheduler that is used, cleaned up (as at the end of a `with` block) and
\* used again
NextLife ==
  \/ \E n \in LoopNames, f \in Funcs, a \in OnceArgs : AddTask(n, f, a)
  \/ ExecuteCall(NONE)
  \/ IterNext(Caller)
  \/ Func(Caller)
  \/ Finish(Caller)
  \/ Start
  \/ Cleanup
  \/ CleanupReturn
  \/ LoopStep(Poller)
  \/ Tick

SpecLife == InitSched /\ [][NextLife]_vars

(***************************************************************************)
(* Properties.                                                             *)
(***************************************************************************)
Terminal == {COMPLETED, FAILED}

\* the steps of the task state machine of the specification, section 4.4
LegalStatusStep(s1, s2) ==
  \/ s2 = s1
  \/ <<s1, s2>> \in {<<PENDING, DELEGATED>>, <<DELEGATED, IN_PROGRESS>>,
                     <<IN_PROGRESS, COMPLETED>>, <<IN_PROGRESS, FAILED>>,
                     <<PENDING, FAILED>>}

\* execute_goal is returning in this step
Returning == pc = "execute" /\ pc' = "idle"

\* C1: during execute_goal every task moves only along PENDING -> DELEGATED ->
\* IN_PROGRESS -> COMPLETED | FAILED or PENDING -> FAILED, and when execute_goal
\* returns every task of the goal is COMPLETED or FAILED.
C1_TaskLifecycle ==
  [][/\ \A a \in DOMAIN heap : LegalStatusStep(heap[a].status, heap'[a].status)
     /\ Returning =>
          \A k \in DOMAIN goal_tasks : heap'[goal_tasks[k]].status \in Terminal]_vars

\* the first half of C1 alone: only legal status steps are taken
C1_LegalStepsOnly ==
  [][\A a \in DOMAIN heap : LegalStatusStep(heap[a].status, heap'[a].status)]_vars

\* a planned task whose worker raised: FAILED with a worker assigned
WorkerFailed(t) == t.status = FAILED /\ t.assigned_to # NONE

C3_RoutingFailure ==
  [][\A k \in DOMAIN goal_tasks :
       LET a == goal_tasks[k]
           t == heap[a]
       IN  /\ (/\ pc = "delegate" /\ i <= Len(goal_tasks) /\ a = loop_task(goal_tasks, i)
               /\ \A m \in DOMAIN team_members :
                    t.task_type \notin team_members[m].capabilities)
              => /\ delegate_task(team_members, t).ret = FALSE
                 /\ heap'[a].status = FAILED
                 /\ heap'[a].error # NONE
                 /\ heap'[a].assigned_to = NONE
                 /\ team_members' = team_members
           /\ (t.status = FAILED /\ t.assigned_to = NONE)
              => /\ heap'[a] = t
                 /\ \A e \in DOMAIN executed' : executed'[e].task # a]_vars

\* a goal has run to the end of its execution loop with a task that no member
\* of a non-empty team could take
C3_Witness ==
  /\ pc = "execute" /\ i > Len(goal_tasks)
  /\ Len(team_members) > 0
  /\ \E k \in DOMAIN goal_tasks :
       /\ heap[goal_tasks[k]].status = FAILED
       /\ heap[goal_tasks[k]].assigned_to = NONE
       /\ heap[goal_tasks[k]].error # NONE
  /\ executed # <<>>

\* C4: with a capable worker, delegate_task picks the capable worker with the
\* fewest tasks_assigned, the earliest registered among equals; it sets
\* assigned_to and DELEGATED, adds one to that worker's tasks_assigned, touches
\* no other counter and returns True.
C4_LeastLoadedFirstRegistered ==
  [][(pc = "delegate" /\ i <= Len(goal_tasks)) =>
       LET a == loop_task(goal_tasks, i)
           t == heap[a]
           cap == {m \in DOMAIN team_members : t.task_type \in team_members[m].capabilities}
       IN  cap # {} =>
             \E m \in cap :
               /\ \A n \in cap :
                    team_members[n].tasks_assigned >= team_members[m].tasks_assigned
               /\ \A n \in cap :
                    n < m => team_members[n].tasks_assigned > team_members[m].tasks_assigned
               /\ heap'[a].assigned_to = team_members[m].name
               /\ heap'[a].status = DELEGATED
               /\ team_members' = [team_members EXCEPT ![m].tasks_assigned = @ + 1]
               /\ delegate_task(team_members, t).ret = TRUE]_vars

\* the first task of a goal went to the first of two capable workers that were
\* level, and the second worker was passed over
C4_Witness ==
  /\ pc = "delegate" /\ i = 2
  /\ Len(team_members) = 2
  /\ heap[goal_tasks[1]].task_type \in
       team_members[1].capabilities \cap team_members[2].capabilities
  /\ team_members[1].tasks_assigned = 1
  /\ team_members[2].tasks_assigned = 0
  /\ heap[goal_tasks[1]].assigned_to = team_members[1].name
  /\ heap[goal_tasks[1]].status = DELEGATED

\* tasks that have been through delegate_task
Delegated == {a \in DOMAIN heap : heap[a].status # PENDING}

\* C5: two workers that start with no assignments and are both capable of every
\* task delegated so far: after N delegations the first registered holds
\* ceil(N/2) of them and the second floor(N/2), so the two counters never differ
\* by more than one.
C5_EvenSplit ==
  (/\ Len(team_members) = 2
   /\ \A a \in Delegated :
        heap[a].task_type \in team_members[1].capabilities \cap team_members[2].capabilities)
  => LET N == Cardinality(Delegated)
     IN  /\ team_members[1].tasks_assigned = (N + 1) \div 2
         /\ team_members[2].tasks_assigned = N \div 2
         /\ team_members[1].tasks_assigned - team_members[2].tasks_assigned \in {0, 1}

\* three tasks of one type have gone to two workers capable of it, two to the
\* first registered and one to the second
C5_Witness ==
  /\ Len(team_members) = 2
  /\ Cardinality(Delegated) = 3
  /\ \A a \in Delegated :
       /\ heap[a].task_type = "customer_support"
       /\ heap[a].task_type \in team_members[1].capabilities \cap team_members[2].capabilities
  /\ team_members[1].tasks_assigned = 2
  /\ team_members[2].tasks_assigned = 1

\* position of a task object in the plan of the goal being run
PlanPosition(a) == CHOOSE k \in DOMAIN goal_tasks : goal_tasks[k] = a

\* C6: in execute_goal no worker is called before every task of the goal has been
\* through delegate_task; the workers are then called one at a time, in the order
\* the planner emitted the tasks, whatever the tasks' priorities.
C6_DelegateAllThenPlanOrder ==
  /\ executed # <<>> =>
       /\ pc \in {"execute", "running"}
       /\ \A k \in DOMAIN goal_tasks : heap[goal_tasks[k]].status # PENDING
  /\ \A e1 \in DOMAIN executed, e2 \in DOMAIN executed :
       e1 < e2 => PlanPosition(executed[e1].task) < PlanPosition(executed[e2].task)
  /\ \A e \in DOMAIN executed :
       heap[executed[e].task].status = IN_PROGRESS => (e = Len(executed) /\ pc = "running")
  /\ \A k \in DOMAIN goal_tasks :
       heap[goal_tasks[k]].status \in {IN_PROGRESS, COMPLETED}
       => \E e \in DOMAIN executed : executed[e].task = goal_tasks[k]

\* a task of lower priority has been run before a task of higher priority that
\* the planner emitted after it
C6_Witness ==
  \E e1 \in DOMAIN executed, e2 \in DOMAIN executed :
    /\ e1 < e2
    /\ heap[executed[e1].task].priority < heap[executed[e2].task].priority
    /\ PlanPosition(executed[e1].task) < PlanPosition(executed[e2].task)

\* C7: for every task, result is set exactly when the status is COMPLETED, error
\* exactly when it is FAILED, and never both, after any sequence of
\* delegate_task, execute_task and execute_goal calls.
C7_ResultXorError ==
  \A a \in DOMAIN heap :
    /\ heap[a].result # NONE <=> heap[a].status = COMPLETED
    /\ heap[a].error # NONE <=> heap[a].status = FAILED
    /\ ~(heap[a].result # NONE /\ heap[a].error # NONE)

\* the three counters of the registry entry of a name
Counters(tm, name) ==
  LET m == tm[MemberIndex(tm, name)]
  IN  <<m.tasks_assigned, m.tasks_completed, m.tasks_failed>>

NotLess(c1, c2) == \A k \in 1..3 : c1[k] >= c2[k]

\* this step is register_agent called with a name that is already registered
ReRegisters(name) ==
  /\ pc = "idle" /\ pc' = "idle"
  /\ UNCHANGED <<heap, calls>>
  /\ \E caps \in CapChoices : team_members' = register_agent(team_members, name, caps)

\* C8 as stated: no counter of any worker name ever decreases, also when a name
\* that is already registered is registered again.
C8_CountersNeverDecrease ==
  [][\A name \in MemberNames(team_members) :
       NotLess(Counters(team_members', name), Counters(team_members, name))]_vars

\* C8: no counter of a worker name decreases in delegate_task, execute_task or
\* execute_goal; registering a name that is already registered replaces its entry
\* and starts its three counters again at 0.
C8_CountersNeverDecreaseUnlessReplaced ==
  [][\A name \in MemberNames(team_members) :
       /\ name \in MemberNames(team_members')
       /\ IF ReRegisters(name)
            THEN Counters(team_members', name) = <<0, 0, 0>>
            ELSE NotLess(Counters(team_members', name), Counters(team_members, name))]_vars

\* a worker that holds a task has been registered again and reports no assignment
C8_Witness ==
  \E m \in DOMAIN team_members, a \in DOMAIN heap :
    /\ heap[a].assigned_to = team_members[m].name
    /\ heap[a].status \in Terminal
    /\ Counters(team_members, team_members[m].name) = <<0, 0, 0>>

\* C9: every planned task has an id no other task has, task_counter has grown by
\* one per task planned (across goals and across planner helpers that call other
\* helpers), and the task store holds exactly one entry per task planned so far.
C9_UniqueTaskIds ==
  /\ \A a \in DOMAIN heap, b \in DOMAIN heap : heap[a].task_id = heap[b].task_id => a = b
  /\ task_counter = Len(heap)
  /\ \A a \in DOMAIN heap : heap[a].task_id = TaskId(a)
  /\ Cardinality(DOMAIN tasks) = Len(heap)
  /\ \A id \in DOMAIN tasks : heap[tasks[id]].task_id = id

\* a second goal has been planned by a helper that calls other helpers, after
\* an earlier goal's task
C9_Witness ==
  /\ kind = "shopify"
  /\ Len(heap) = 3
  /\ Len(goal_tasks) = 2
  /\ heap[goal_tasks[1]].task_type = "order_processing"
  /\ heap[goal_tasks[2]].task_type = "sales_forecasting"
  /\ Cardinality(DOMAIN tasks) = 3

\* number of entries in the per-type lists of a report's results
ResultsCount(r) ==
  Cardinality(UNION {{<<ty, k>> : k \in DOMAIN r.results[ty]} : ty \in DOMAIN r.results})

\* C10: the report execute_goal returns has total_tasks equal to the number of
\* planned tasks, successful + failed equal to total_tasks, as many results
\* entries as successful, as many failures as failed, and success_rate "0%" for
\* an empty plan.
C10_ReportArithmetic ==
  [][Returning =>
       LET r == report'[1]
       IN  /\ r.summary.total_tasks = Len(goal_tasks)
           /\ r.summary.successful + r.summary.failed = r.summary.total_tasks
           /\ ResultsCount(r) = r.summary.successful
           /\ Len(r.failures) = r.summary.failed
           /\ Len(goal_tasks) = 0 => r.summary.success_rate = <<"0%">>]_vars

\* C11: the failures list of the report execute_goal returns names the failed
\* tasks in the order in which they became FAILED during that call (a task that
\* failed at delegation comes before one that failed later at execution).
C11_FailuresInCompletionOrder ==
  [][Returning =>
       LET failures == report'[1].failures
       IN  /\ Len(failures) = Len(failed_order)
           /\ \A k \in DOMAIN failures :
                failures[k].task_id = heap[failed_order[k]].task_id]_vars

\* address of the goal task a failures entry names
FailureTask(f) == CHOOSE a \in Range(goal_tasks) : heap[a].task_id = f.task_id

\* C11 as the code has it: the failures list names exactly the FAILED tasks of
\* the goal, each once with its error, in the order the planner emitted them.
C11_FailuresInPlanOrder ==
  [][Returning =>
       LET failures == report'[1].failures
       IN  /\ {failures[k].task_id : k \in DOMAIN failures}
                = {heap[a].task_id : a \in {b \in Range(goal_tasks) : heap[b].status = FAILED}}
           /\ \A k \in DOMAIN failures : failures[k].error = heap[FailureTask(failures[k])].error
           /\ \A k1 \in DOMAIN failures, k2 \in DOMAIN failures :
                k1 < k2 => PlanPosition(FailureTask(failures[k1]))
                             < PlanPosition(FailureTask(failures[k2]))]_vars

\* execute_goal is about to return with a task that failed at delegation and a
\* task emitted before it that failed later, at execution
C11_Witness ==
  /\ pc = "execute" /\ i > Len(goal_tasks)
  /\ \E k1 \in DOMAIN failed_order, k2 \in DOMAIN failed_order :
       /\ k1 < k2
       /\ PlanPosition(failed_order[k1]) > PlanPosition(failed_order[k2])
       /\ heap[failed_order[k1]].assigned_to = NONE
       /\ heap[failed_order[k2]].error = "worker error"

(***************************************************************************)
(* plan_tasks on the goals its docstrings list.                            *)
(***************************************************************************)
MaxPlanTasks == 4

G_plan_production == <<"p","l","a","n","_","p","r","o","d","u","c","t","i","o","n">>
G_custom_order == <<"c","u","s","t","o","m","_","o","r","d","e","r">>
G_recipe_management == <<"r","e","c","i","p","e","_","m","a","n","a","g","e","m","e","n","t">>
G_forecast_demand == <<"f","o","r","e","c","a","s","t","_","d","e","m","a","n","d">>
G_customer_inquiry == <<"c","u","s","t","o","m","e","r","_","i","n","q","u","i","r","y">>
G_daily_operations == <<"d","a","i","l","y","_","o","p","e","r","a","t","i","o","n","s">>
G_review_pr == <<"r","e","v","i","e","w","_","p","r">>
G_pre_release == <<"p","r","e","_","r","e","l","e","a","s","e">>
G_onboard_contributor == <<"o","n","b","o","a","r","d","_","c","o","n","t","r","i","b","u","t","o","r">>
G_security_audit == <<"s","e","c","u","r","i","t","y","_","a","u","d","i","t">>
G_triage_issues == <<"t","r","i","a","g","e","_","i","s","s","u","e","s">>
G_process_orders == <<"p","r","o","c","e","s","s","_","o","r","d","e","r","s">>
G_marketing_campaign == <<"m","a","r","k","e","t","i","n","g","_","c","a","m","p","a","i","g","n">>
G_weekly_analytics == <<"w","e","e","k","l","y","_","a","n","a","l","y","t","i","c","s">>
G_customer_review == <<"c","u","s","t","o","m","e","r","_","r","e","v","i","e","w">>

\* the "Supported goals" of BakeryLeader.plan_tasks' docstring
SupportedGoals_bakery == {G_plan_production, G_custom_order, G_quality_check, G_recipe_management, G_forecast_demand, G_customer_inquiry, G_daily_operations}

\* the "Supported goals" of RepositoryLeader.plan_tasks' docstring
SupportedGoals_repository == {G_review_pr, G_pre_release, G_onboard_contributor, G_security_audit, G_update_docs, G_triage_issues}

\* the "Supported goals" of ShopifyStoreLeader.plan_tasks' docstring
SupportedGoals_shopify == {G_process_orders, G_customer_support, G_marketing_campaign, G_weekly_analytics, G_customer_review, G_daily_operations}

SupportedGoals(k) ==
  CASE k = "bakery" -> SupportedGoals_bakery
    [] k = "repository" -> SupportedGoals_repository
    [] k = "shopify" -> SupportedGoals_shopify

\* contexts given with a goal: nothing, or a list of inquiries
PlanContexts == {EmptyDict, ("inquiries" :> <<"q1", "q2">>)}

\* the helper the `# GOAL:` branch written for a supported goal calls
\* (no branch is written for "triage_issues")
DocumentedWorkflow(k, goal, context, c) ==
  CASE k = "bakery" /\ goal = G_plan_production -> Bakery_plan_production_planning(context, c)
    [] k = "bakery" /\ goal = G_custom_order -> Bakery_plan_custom_order(context, c)
    [] k = "bakery" /\ goal = G_quality_check -> Bakery_plan_quality_check(context, c)
    [] k = "bakery" /\ goal = G_recipe_management -> Bakery_plan_recipe_management(context, c)
    [] k = "bakery" /\ goal = G_forecast_demand -> Bakery_plan_demand_forecast(context, c)
    [] k = "bakery" /\ goal = G_customer_inquiry -> Bakery_plan_customer_service(context, c)
    [] k = "bakery" /\ goal = G_daily_operations -> Bakery_plan_daily_operations(context, c)
    [] k = "repository" /\ goal = G_review_pr -> Repository_plan_pr_review(context, c)
    [] k = "repository" /\ goal = G_pre_release -> Repository_plan_pre_release(context, c)
    [] k = "repository" /\ goal = G_onboard_contributor -> Repository_plan_onboarding(context, c)
    [] k = "repository" /\ goal = G_security_audit -> Repository_plan_security_audit(context, c)
    [] k = "repository" /\ goal = G_update_docs -> Repository_plan_documentation_update(context, c)
    [] k = "shopify" /\ goal = G_process_orders -> Shopify_plan_order_processing(context, c)
    [] k = "shopify" /\ goal = G_customer_support -> Shopify_plan_customer_support(context, c)
    [] k = "shopify" /\ goal = G_marketing_campaign -> Shopify_plan_marketing_campaign(context, c)
    [] k = "shopify" /\ goal = G_weekly_analytics -> Shopify_plan_analytics(context, c)
    [] k = "shopify" /\ goal = G_customer_review -> Shopify_plan_customer_segmentation(context, c)
    [] k = "shopify" /\ goal = G_daily_operations -> Shopify_plan_daily_operations(context, c)

\* the generic fallback of a leader
general_goal(k, goal, context, c) ==
  CASE k = "bakery" -> Bakery_plan_general_goal(goal, context, c)
    [] k = "repository" -> Repository_plan_general_goal(goal, context, c)
    [] k = "shopify" -> Shopify_plan_general_goal(goal, context, c)

\* a leader without workers is given supported goals and one unknown goal
NextPlan ==
  \/ \E goal \in SupportedGoals(kind) \cup {G_say_hello}, context \in PlanContexts :
       ExecuteGoalPlan(goal, context, MaxPlanTasks)
  \/ ExecuteGoalDelegate
  \/ ExecuteGoalDelegated
  \/ ExecuteGoalExecute
  \/ ExecuteGoalReturn

SpecPlan == Init /\ [][NextPlan]_vars

\* C12: plan_tasks of each leader returns at least one task for every non-empty
\* goal and every context, also a context without the optional keys.
C12_PlanNeverEmpty ==
  [][(pc = "idle" /\ pc' = "delegate") => Len(goal_tasks') > 0]_vars

\* the tasks planned by this step
Planned == [k \in DOMAIN goal_tasks' |-> heap'[goal_tasks'[k]]]

\* C13: every goal the plan_tasks docstring of a leader lists as supported is
\* dispatched to the workflow written for it, not to the bundle of an earlier
\* trigger and not to the generic fallback.
C13_SupportedGoalsDispatched ==
  [][\A goal \in SupportedGoals(kind), context \in PlanContexts :
       ExecuteGoalPlan(goal, context, MaxPlanTasks) =>
         IF kind = "repository" /\ goal = G_triage_issues
           THEN Planned # general_goal(kind, goal, context, task_counter).tasks
           ELSE Planned = DocumentedWorkflow(kind, goal, context, task_counter).tasks]_vars

(***************************************************************************)
(* Properties of the scheduler.                                            *)
(***************************************************************************)
\* the caller's last call was execute() with no task name and it is over
RunDueOver == threads[Caller].pc = "idle" /\ Falsy(threads[Caller].task_name)

NoDuplicates(s) == \A x, y \in DOMAIN s : s[x] = s[y] => x = y

\* C15: a call execute() with no task name runs every job that was enabled and
\* due (next_run set and <= now) when the call was made, each exactly once, runs
\* no other job, and a mapping it returns has the names of the jobs run as keys.
C15_RunDueRunsExactlyTheDueJobs ==
  RunDueOver =>
    LET th == threads[Caller]
    IN  /\ Range(th.ran) = th.due_at_call
        /\ NoDuplicates(th.ran)
        /\ th.exc = NONE => Range(th.results) = {jobs[r].name : r \in Range(th.ran)}

\* the seconds of a job's "every_<n><unit>" schedule
Seconds(unit) == CASE unit = "s" -> 1 [] unit = "m" -> 60 [] unit = "h" -> 3600

IntervalOf(task) == task.schedule[2] * Seconds(task.schedule[3])

HasInterval(args) ==
  TruthyInt(args.interval_seconds) \/ TruthyInt(args.interval_minutes)
    \/ TruthyInt(args.interval_hours)

\* C16: a job added with an interval and run_immediately=True is due at once; a
\* successful execution of a job with interval I sets last_run to the time the
\* action ran, adds exactly 1 to runs and sets next_run to the completion time
\* plus I, so next_run >= last_run + I and the job is not due before I elapsed.
C16_IntervalJobRescheduled ==
  [][/\ \A n \in JobNames, f \in Funcs, a \in AddArgs :
          AddTask(n, f, a) /\ HasInterval(a) /\ a.run_immediately
            => is_due(jobs'[Len(jobs')], now')
     /\ \A t \in Threads :
          LET c == threads[t].cur
          IN  /\ Func(t) /\ jobs[c].func = "ok" /\ jobs[c].schedule # <<>>
                => jobs'[c].last_run = now
              /\ Finish(t) /\ jobs[c].schedule # <<>>
                => /\ jobs'[c].runs = jobs[c].runs + 1
                   /\ jobs'[c].last_run = jobs[c].last_run
                   /\ jobs'[c].next_run = now + IntervalOf(jobs[c])
                   /\ jobs'[c].next_run >= jobs'[c].last_run + IntervalOf(jobs[c])
                   /\ \A clock \in 0..(now + IntervalOf(jobs[c]) - 1) :
                        ~is_due(jobs'[c], clock)]_vars

\* a job with a minute interval was added to run at once, ran once, time passed
\* while it ran, and it is scheduled a minute after it completed
C16_Witness ==
  \E r \in DOMAIN jobs :
    /\ jobs[r].schedule = every(1, "m")
    /\ jobs[r].runs = 1
    /\ jobs[r].last_run = 0
    /\ jobs[r].next_run = 61
    /\ threads[Caller].pc = "idle"

C17_FailureRecordedLoopGoesOn ==
  [][/\ \A t \in Threads :
          LET c == threads[t].cur
          IN  Func(t) /\ jobs[c].func = "bad"
                => /\ history' = Append(history,
                                   [task |-> jobs[c].name, timestamp |-> now,
                                    status |-> "failed",
                                    error |-> <<"Task ", jobs[c].name, " failed: ",
                                                "job error">>])
                   /\ jobs' = jobs
                   /\ is_due(jobs[c], now) => is_due(jobs'[c], now)
                   /\ threads'[t].exc = "Exception"
                   /\ threads'[t].pc = IF t = Caller THEN "idle" ELSE "sleep"
                   /\ running' = running
     /\ threads[Poller].pc = "sleep" => threads'[Poller].pc \in {"sleep", "loop"}
     /\ Wake => threads'[Poller].pc = "loop"
     /\ RunLoop /\ running => threads'[Poller].pc = "iter"]_vars

\* the poll loop is in a tick after a tick in which a job's action raised
C17_Witness ==
  /\ threads[Poller].pc = "iter"
  /\ running
  /\ \E k \in DOMAIN invocations :
       invocations[k].thread = Poller /\ ~invocations[k].ok
  /\ \E k \in DOMAIN history : history[k].status = "failed"

\* job r is in the job table
InTable(r) == \E k \in dict_live(sched_tasks) : sched_tasks[k].ref = r

\* job r still waits for the run that was due at time clock: its next_run is
\* not later than clock and no thread has called its action for that next_run
Pending(r, clock) ==
  /\ InTable(r)
  /\ is_due(jobs[r], clock)
  /\ \A k \in DOMAIN invocations :
       ~(invocations[k].job = r /\ invocations[k].due = jobs[r].next_run)

\* C14: with the poll loop running, a job whose action raises keeps no other job
\* from running: when a tick is over that another job's exception ended, every
\* enabled job with an interval whose action does not raise and which was due
\* when the tick began has been run for that due time, wherever it stands in the
\* job table.
C14_RaisingJobStarvesNoOther ==
  LET th == threads[Poller]
  IN  th.pc = "sleep" /\ th.exc = "Exception" =>
        \A r \in th.due_at_call :
          jobs[r].func = "ok" /\ jobs[r].schedule # <<>> => ~Pending(r, th.call_now)

\* the 'success' history entries of the jobs named name
Successes(name) ==
  Cardinality({k \in DOMAIN history :
                 history[k].task = name /\ history[k].status = "success"})

\* C19: with the poll loop and the caller both in execute(), a job that became
\* due once has its action called at most once for that due time (two calls that
\* return never share a job and a due time), and the runs counter of a job whose
\* name no other job had equals the number of its 'success' history entries.
C19_OneRunPerDueTime ==
  /\ \A x, y \in DOMAIN invocations :
       /\ invocations[x].job = invocations[y].job
       /\ invocations[x].due = invocations[y].due
       /\ invocations[x].due # NoneInt
       /\ invocations[x].ok /\ invocations[y].ok
       => x = y
  /\ \A r \in DOMAIN jobs :
       (\A q \in DOMAIN jobs : jobs[q].name = jobs[r].name => q = r)
         => jobs[r].runs = Successes(jobs[r].name)

\* C20: a tick of the poll loop during which the caller adds or removes a job
\* does not fail, and when it is over every job that was due when it began and
\* is still in the table has been run for that due time.
C20_TickSurvivesTableChange ==
  LET th == threads[Poller]
  IN  th.pc = "sleep" =>
        /\ th.exc # "RuntimeError"
        /\ th.exc = NONE => \A r \in th.due_at_call : ~Pending(r, th.call_now)

(***************************************************************************)
(* Properties of start(), stop() and the poll loop.                        *)
(***************************************************************************)
\* thread t is inside _run_loop
LoopAlive(t) == threads[t].pc \notin {"off", "dead"}

\* thread t waits for a second or for a history entry beyond the bounds
BeyondBounds(t) ==
  \/ threads[t].pc = "sleep" /\ threads[t].wake > MaxTime
  \/ threads[t].pc = "func" /\ Len(history) + Cardinality(InFlight) >= MaxHistory

\* C23: once stop() has cleared the flag and no start() sets it again, every
\* poll loop ends (a blocking start() returns): stop() leaves a job in flight
\* alone, a loop that reads the cleared flag begins no tick, and each loop
\* thread is eventually out of _run_loop.
C23_LoopEndsAfterStop ==
  /\ [][/\ Stop => \A t \in LoopThreads : threads'[t] = threads[t]
        /\ \A t \in LoopThreads :
             LoopTest(t) /\ ~running => threads'[t].pc = "dead"]_vars
  /\ \A t \in LoopThreads :
       (~running /\ LoopAlive(t)) ~> (running \/ ~LoopAlive(t) \/ BeyondBounds(t))

\* a blocking start() has returned after stop(): its loop ran a job and ended
C23_Witness ==
  /\ threads[Blocker].pc = "dead"
  /\ ~running
  /\ \E k \in DOMAIN invocations : invocations[k].thread = Blocker

\* C21: over any calls of start(blocking=False), start(blocking=True) from
\* another thread and stop(), at most one thread is inside the poll loop while
\* the scheduler is running: a start() after a stop() never leaves its loop
\* beside one that an earlier start() began.
C21_AtMostOneLoop ==
  running => Cardinality({t \in LoopThreads : LoopAlive(t)}) <= 1

\* C22: stop() is safe in every state of the scheduler, a freshly constructed
\* one included, and idempotent: it raises nothing, leaves the scheduler not
\* running and leaves the jobs, the job table and the history as they were.
C22_StopSafeEverywhere ==
  [][Stop => /\ threads'[Caller].exc = NONE
             /\ running' = FALSE
             /\ jobs' = jobs
             /\ sched_tasks' = sched_tasks
             /\ history' = history]_vars

Min(x, y) == IF x <= y THEN x ELSE y

\* the last n entries of s, oldest first
Newest(s, n) == SubSeq(s, Len(s) - n + 1, Len(s))

\* C24: for every limit >= 0 and history of length h, get_history(limit)
\* returns exactly the min(limit, h) most recent entries, oldest first, and the
\* stored history is unchanged.
C24_HistoryTail ==
  [][\A limit \in Limits :
       GetHistory(limit) /\ sched_state
         => /\ threads'[Caller].returned = Newest(history, Min(limit, Len(history)))
            /\ history' = history]_vars

\* s is an initial part of q
IsPrefix(s, q) == Len(s) <= Len(q) /\ SubSeq(q, 1, Len(s)) = s

\* C25: the history is append-only over add_task, execute, start, stop and
\* cleanup, also when the scheduler is used again after cleanup: no entry is
\* ever removed or altered, and every attempt to run a job appends exactly one
\* entry.
C25_HistoryAppendOnly ==
  [][/\ IsPrefix(history, history')
     /\ \A t \in Threads :
          /\ Func(t) /\ jobs[threads[t].cur].func = "bad"
               => Len(history') = Len(history) + 1
          /\ Finish(t) => Len(history') = Len(history) + 1]_vars

(***************************************************************************)
(* Properties of the workers' initialize hooks.                            *)
(***************************************************************************)
\* workers of the team whose object has an initialize attribute
Hooked(tm) == {k \in DOMAIN tm : tm[k].instance.hook # "none"}

\* execute_goal is entered on a leader that has planned no task yet
FirstExecuteGoal == pc = "idle" /\ pc' = "delegate" /\ heap = <<>>

\* C26: on the first execute_goal call every registered worker's initialize hook
\* has been attempted once the tasks are planned, also the hooks that follow one
\* that raises, and the goal goes on to delegation
C26_FirstGoalInitializesEveryWorker ==
  [][FirstExecuteGoal =>
       /\ \A k \in Hooked(team_members') : team_members'[k].instance.init_calls >= 1
       /\ Len(goal_tasks') >= 1]_vars

\* execute_goal calls the execute of the worker a task is assigned to
CallsExecute == pc = "execute" /\ pc' = "running"

\* C28: the leader calls each registered worker's initialize hook exactly once,
\* and before execute_goal first calls that worker's execute
C28_HookOnceBeforeExecute ==
  [][/\ \A k \in Hooked(team_members') : team_members'[k].instance.init_calls <= 1
     /\ CallsExecute =>
          \A k \in Hooked(team_members) :
            team_members[k].name = executed'[Len(executed')].worker
              => team_members[k].instance.init_calls = 1]_vars

(***************************************************************************)
(* Properties of the task life cycle under direct calls.                   *)
(***************************************************************************)
\* C27: delegate_task changes a task only when it is PENDING and execute_task
\* changes a task, and calls a worker, only when it is DELEGATED; a COMPLETED or
\* FAILED task keeps its status, result and error under both
C27_OnlyLegalSteps ==
  [][\A a \in DOMAIN heap :
       /\ DelegateTaskCall(a) /\ heap[a].status # PENDING
            => heap'[a] = heap[a]
       /\ (\E o \in WorkerOutcomes : ExecuteTaskCall(a, o)) /\ heap[a].status # DELEGATED
            => heap'[a] = heap[a] /\ team_members' = team_members]_vars

(***************************************************************************)
(* Properties of the counters.                                             *)
(***************************************************************************)
RECURSIVE SumAssigned(_)
SumAssigned(tm) ==
  IF tm = <<>> THEN 0 ELSE tm[1].tasks_assigned + SumAssigned(Tail(tm))

\* execute_goal has returned and nothing was called since
Returned == pc = "idle" /\ report # <<>>

\* C29: after an execute_goal return, with distinct names registered, every
\* worker has tasks_assigned = tasks_completed + tasks_failed, the assignments
\* add up to the stored tasks that have an assignee, and the four status counts
\* of get_team_status add up to its total
C29_CountersBalance ==
  Returned =>
    /\ \A k \in DOMAIN team_members :
         team_members[k].tasks_assigned
           = team_members[k].tasks_completed + team_members[k].tasks_failed
    /\ SumAssigned(team_members)
         = Cardinality({id \in DOMAIN tasks : heap[tasks[id]].assigned_to # NONE})
    /\ LET s == get_team_status(tasks, heap)
       IN  s.pending + s.in_progress + s.completed + s.failed = s.total

(***************************************************************************)
(* Properties of one-time jobs.                                            *)
(***************************************************************************)
\* the calls of job r's action made by a poll loop
LoopCalls(r) ==
  {k \in DOMAIN invocations : invocations[k].job = r /\ invocations[k].thread \in LoopThreads}

\* C30: the poll loop calls the action of a job without a schedule at most once,
\* after that attempt the job's next_run is None, and a job whose next_run was
\* never set (no interval, no run_immediately) is not called by the poll loop
C30_OneTimeJobRunsOnce ==
  \A r \in DOMAIN jobs :
    jobs[r].schedule = <<>> =>
      /\ Cardinality(LoopCalls(r)) <= 1
      /\ LoopCalls(r) # {} /\ (\A t \in Threads : threads[t].cur # r)
           => jobs[r].next_run = NoneInt
      /\ \A k \in LoopCalls(r) : invocations[k].due # NoneInt

====
